---- MODULE Spec2Model ----
(***************************************************************************)
(* SilentVoice_BD pose pipeline: frame encoders, sequence assembly,        *)
(* z-score normalization and sequence classification, modelled from        *)
(* python-ai/scripts and python-ai/learning.                               *)
(*                                                                         *)
(* Values are integers.  A feature vector of the encoder section is the    *)
(* sequence of its slots, each slot holding the tag of the landmark        *)
(* coordinate written there.  A frame of the pipeline sections is a        *)
(* record: its width (number of values), its value x in one                *)
(* representative dimension (every pipeline operation is elementwise per   *)
(* dimension), the position src it had in the source, and history fields.  *)
(***************************************************************************)
EXTENDS Integers, Sequences, FiniteSets, TLC

VARIABLES
    results,      \* encoder section: <<r>>, the detector result being encoded
    enh_out,      \* output of EnhancedPoseExtractor.extract_keypoints_enhanced
    pfe_out,      \* output of PoseFeatureExtractor.extract_features_from_landmarks
    files,        \* what is on disk: normalization arrays, model, class mappings
    config,       \* EnhancedPoseExtractor.config
    extractor,    \* the EnhancedPoseExtractor object (normalization state)
    result,       \* the dict the extractor returned last
    pfe_seq,      \* the array PoseFeatureExtractor.process_sequence returned last
    predictor,    \* the EnhancedSignLanguagePredictor object
    pred,         \* the dict a prediction operation returned last
    rt_filtered,  \* RealTimeProcessor: the frames _apply_quality_filtering returned last
    service,      \* which live service this process runs
    active_sessions,   \* StreamingAPI: session id -> its processor's pose_buffer
    current_sequence,  \* lesson feedback: the global predictor's frame buffer
    sent,         \* per user, the number of frames the user has submitted
    since,        \* per user, the number submitted before the user's last reset
    fq_has_queue, \* FrameQueueManager: session_id in self.session_queues
    fq_sequences, \* self.session_sequences[session_id]: a deque's id, 0 when absent
    fq_locks,     \* self.session_locks[session_id]: a lock's id, 0 when absent
    fq_deque,     \* deque id -> its frames
    fq_holder,    \* lock id -> the thread holding it, 0 when free
    fq_thread,    \* thread -> the call it is in and where
    fq_calls,     \* calls started so far
    fq_appended,  \* frames appended so far; a frame is its arrival number
    fq_stale,     \* frames appended before the latest completed clear_session
    fq_returned,  \* what get_sequence returned last
    all_features, \* NormalizationCalculator.all_features
    fit,          \* the normalization parameters a fit saved last
    report,       \* the class and confidence a predictor reported last
    quality,      \* the last call of _calculate_quality_score and what it returned
    mgr,          \* a FrameQueueManager with one session id, and its callers
    rtp           \* a RealTimeProcessor, its clock and the camera's frames

encVars == <<results, enh_out, pfe_out>>
pipeVars == <<files, config, extractor, result, pfe_seq, predictor, pred, rt_filtered>>

sessVars == <<service, active_sessions, current_sequence, sent, since>>

fqVars == <<fq_has_queue, fq_sequences, fq_locks, fq_deque, fq_holder, fq_thread,
           fq_calls, fq_appended, fq_stale, fq_returned>>

vars == <<results, enh_out, pfe_out, files, config, extractor, result, pfe_seq,
          predictor, pred, rt_filtered, service, active_sessions, current_sequence, sent, since,
          fq_has_queue, fq_sequences, fq_locks, fq_deque, fq_holder, fq_thread,
          fq_calls, fq_appended, fq_stale, fq_returned, all_features, fit, report, quality, mgr, rtp>>

fitVars == <<all_features, fit>>

notEnc == <<pipeVars, sessVars, fqVars, fitVars, report, quality, mgr, rtp>>
notPipe == <<encVars, sessVars, fqVars, fitVars, report, quality, mgr, rtp>>
notSess == <<encVars, pipeVars, fqVars, fitVars, report, quality, mgr, rtp>>
notFq == <<encVars, pipeVars, sessVars, fitVars, report, quality, mgr, rtp>>
notMgr == <<encVars, pipeVars, sessVars, fqVars, fitVars, report, quality, rtp>>
notRtp == <<encVars, pipeVars, sessVars, fqVars, fitVars, report, quality, mgr>>
notFit == <<encVars, pipeVars, sessVars, fqVars, report, quality, mgr, rtp>>

(***************************************************************************)
(* Frame encoders                                                          *)
(***************************************************************************)
\* pose_extractor.py: np.zeros(63) / np.zeros(132) / np.zeros(30), 288
HandBlock == 63
PoseBlock == 132
FaceBlock == 30
FacePointsUsed == 10
feature_dim == 288
\* landmark counts MediaPipe Holistic yields for a detected group
HandPoints == 21
PosePoints == 33
\* pose_feature_extractor.py
PfePoseBlock == 99
PfeHandBlock == 63
PfeFaceBlock == 63
PfeFacePoints == 21

\* how far a detected group's point count may be off the expected one
Slack == 1

XYZ == <<"x", "y", "z">>
XYZV == <<"x", "y", "z", "visibility">>

\* the value 0.0 in a slot
Zero == <<"zero", 0, "-">>

Zeros(n) == [i \in 1..n |-> Zero]

\* [[lm.x, lm.y, lm.z] for lm in landmark[:n]].flatten(): point-major
Flatten(g, n, coords) ==
    [k \in 1..(n * Len(coords)) |->
        <<g, (k - 1) \div Len(coords), coords[((k - 1) % Len(coords)) + 1]>>]

Absent == [present |-> FALSE, n |-> 0]

Counts(expected) == (expected - Slack)..(expected + Slack)

HandResults == {Absent} \cup [present : {TRUE}, n : Counts(HandPoints)]
PoseResults == {Absent} \cup [present : {TRUE}, n : Counts(PosePoints)]
FaceResults == {Absent} \cup
    [present : {TRUE}, n : Counts(FacePointsUsed) \cup Counts(PfeFacePoints + 1)]

DetectorResults ==
    [left_hand_landmarks : HandResults, right_hand_landmarks : HandResults,
     pose_landmarks : PoseResults, face_landmarks : FaceResults]

extract_keypoints_enhanced(r) ==
    LET lh == IF r.left_hand_landmarks.present
              THEN Flatten("left_hand", r.left_hand_landmarks.n, XYZ)
              ELSE Zeros(HandBlock)
        rh == IF r.right_hand_landmarks.present
              THEN Flatten("right_hand", r.right_hand_landmarks.n, XYZ)
              ELSE Zeros(HandBlock)
        pose == IF r.pose_landmarks.present
                THEN Flatten("pose", r.pose_landmarks.n, XYZV)
                ELSE Zeros(PoseBlock)
        face == IF r.face_landmarks.present /\ r.face_landmarks.n >= FacePointsUsed
                THEN Flatten("face", FacePointsUsed, XYZ)
                ELSE Zeros(FaceBlock)
    IN  lh \o rh \o pose \o face

extract_features_from_landmarks(r) ==
    LET pose == IF r.pose_landmarks.present
                THEN Flatten("pose", r.pose_landmarks.n, XYZ)
                ELSE Zeros(PfePoseBlock)
        lh == IF r.left_hand_landmarks.present
              THEN Flatten("left_hand", r.left_hand_landmarks.n, XYZ)
              ELSE Zeros(PfeHandBlock)
        rh == IF r.right_hand_landmarks.present
              THEN Flatten("right_hand", r.right_hand_landmarks.n, XYZ)
              ELSE Zeros(PfeHandBlock)
        face == IF r.face_landmarks.present /\ r.face_landmarks.n > PfeFacePoints
                THEN Flatten("face", PfeFacePoints, XYZ)
                ELSE Zeros(PfeFaceBlock)
        features == pose \o lh \o rh \o face
    IN  IF Len(features) # feature_dim
        THEN IF Len(features) < feature_dim
             THEN features \o Zeros(feature_dim - Len(features))
             ELSE SubSeq(features, 1, feature_dim)
        ELSE features

EncIdle ==
    /\ results = <<>>
    /\ enh_out = <<>>
    /\ pfe_out = <<>>

\* self.holistic.process(frame): the detector hands back a result
HolisticProcess ==
    /\ results = <<>>
    /\ \E r \in DetectorResults : results' = <<r>>
    /\ UNCHANGED <<enh_out, pfe_out>>
    /\ UNCHANGED notEnc

ExtractKeypointsEnhanced ==
    /\ results # <<>>
    /\ enh_out = <<>>
    /\ enh_out' = extract_keypoints_enhanced(results[1])
    /\ UNCHANGED <<results, pfe_out>>
    /\ UNCHANGED notEnc

ExtractFeaturesFromLandmarks ==
    /\ results # <<>>
    /\ pfe_out = <<>>
    /\ pfe_out' = extract_features_from_landmarks(results[1])
    /\ UNCHANGED <<results, enh_out>>
    /\ UNCHANGED notEnc

\* the frame is done with: the next frame gets a fresh detector result
NextFrame ==
    /\ results # <<>>
    /\ results' = <<>>
    /\ enh_out' = <<>>
    /\ pfe_out' = <<>>
    /\ UNCHANGED notEnc

EncNext ==
    \/ HolisticProcess
    \/ ExtractKeypointsEnhanced
    \/ ExtractFeaturesFromLandmarks
    \/ NextFrame

(***************************************************************************)
(* Normalization statistics and the z-score transform                      *)
(***************************************************************************)
sequence_length == 30
\* quality scores are in tenths: 0.4 is 4
quality_threshold == 4
MinFilteredFrames == 5
ClipBound == 5
\* np.where(stds == 0, 1e-8, stds): the std 1e-8 is the fraction 1/EpsDen
EpsDen == 100000000
DefaultVocabularySize == 31
\* realtime_processor.py: buffer_size and min_frames_for_prediction
buffer_size == 30
min_frames_for_prediction == 15

\* a std is the fraction num/den
Std(n) == [num |-> n, den |-> 1]
Eps == [num |-> 1, den |-> EpsDen]

\* np.clip(v, -5.0, 5.0)
Clip(v) == IF v < -ClipBound THEN -ClipBound
           ELSE IF v > ClipBound THEN ClipBound ELSE v

\* (x - mean) / std, rounded down to the model's integer grid
ZScore(x, mean, std) == ((x - mean) * std.den) \div std.num

\* the two .npy files of python-ai/data, in the representative dimension
NormFiles ==
    { [status |-> "absent", mean |-> 0, std |-> 0],
      [status |-> "corrupt", mean |-> 0, std |-> 0],
      [status |-> "ok", mean |-> 1, std |-> 2],
      [status |-> "ok", mean |-> 0, std |-> 0] }

generate_default_normalization ==
    [feature_means |-> 0, feature_stds |-> Std(1), normalization_loaded |-> TRUE]

\* the same code in pose_extractor.py and in sign_predictor.py
load_normalization_params(norm) ==
    IF norm.status = "ok"
    THEN [feature_means |-> norm.mean,
          feature_stds |-> IF norm.std = 0 THEN Eps ELSE Std(norm.std),
          normalization_loaded |-> TRUE]
    ELSE generate_default_normalization

(***************************************************************************)
(* EnhancedPoseExtractor: sequence assembly                                *)
(***************************************************************************)
\* longest source (frame list or video) and longest of the shorter of its two runs
MaxFrames == 32
MaxShort == 5

\* what a source frame yields: can it be read, does the detector find a
\* landmark group, its encoded value x and its quality score q (tenths)
Unreadable == [readable |-> FALSE, det |-> FALSE, x |-> 0, q |-> 0]
Blank == [readable |-> TRUE, det |-> FALSE, x |-> 0, q |-> 0]
PoorQ == [readable |-> TRUE, det |-> TRUE, x |-> 4, q |-> 1]
LowQ == [readable |-> TRUE, det |-> TRUE, x |-> -3, q |-> 2]
HighQ == [readable |-> TRUE, det |-> TRUE, x |-> 13, q |-> 6]
FrameKinds == {Unreadable, Blank, PoorQ, LowQ, HighQ}

RunLengths ==
    {l \in (0..MaxFrames) \X (0..MaxFrames) :
        /\ l[1] + l[2] <= MaxFrames
        /\ l[1] <= MaxShort \/ l[2] <= MaxShort}

\* a source of two runs of like frames; src is the 1-based source position
Source(l, k1, k2) ==
    [i \in 1..(l[1] + l[2]) |->
        [src |-> i, kind |-> IF i <= l[1] THEN k1 ELSE k2]]

Sources == {Source(l, k[1], k[2]) : l \in RunLengths, k \in FrameKinds \X FrameKinds}

\* the encoder's output for a readable frame: all zeros when nothing is detected
RawFrame(item) ==
    [src |-> item.src, raw |-> item.kind.x, x |-> item.kind.x,
     det |-> item.kind.det, norms |-> 0, pad |-> FALSE, width |-> feature_dim]

PaddingFrame(x, width) ==
    [src |-> 0, raw |-> 0, x |-> x, det |-> FALSE, norms |-> 0, pad |-> TRUE,
     width |-> width]

\* a z-score left without the clip
NormFrame_unclipped(f, o) ==
    [f EXCEPT !.x = ZScore(f.x, o.feature_means, o.feature_stds),
              !.norms = f.norms + 1]

NormFrame(f, o) ==
    [f EXCEPT !.x = Clip(ZScore(f.x, o.feature_means, o.feature_stds)),
              !.norms = f.norms + 1]

\* np.array(rows) of rows of unequal widths raises, as does the broadcast
\* against the 288 statistics
Ragged(sequences) == \E i \in 1..Len(sequences) : sequences[i].width # feature_dim

select_best_frames(frame_paths, max_frames) ==
    IF Len(frame_paths) <= max_frames THEN frame_paths
    ELSE [i \in 1..max_frames |->
            frame_paths[(((i - 1) * Len(frame_paths)) \div max_frames) + 1]]

apply_normalization(ext, sequences) ==
    IF ~ext.normalization_loaded THEN [seqs |-> sequences, ok |-> FALSE]
    ELSE IF Ragged(sequences) THEN [seqs |-> sequences, ok |-> FALSE]
    ELSE [seqs |-> [i \in 1..Len(sequences) |-> NormFrame(sequences[i], ext)],
          ok |-> TRUE]

RemoveAt(s, i) == SubSeq(s, 1, i - 1) \o SubSeq(s, i + 1, Len(s))

\* sorted(pairs, key=score, reverse=True): stable
RECURSIVE SortByScoreDesc(_)
SortByScoreDesc(pairs) ==
    IF pairs = <<>> THEN <<>>
    ELSE LET best == CHOOSE i \in 1..Len(pairs) :
                        /\ \A j \in 1..Len(pairs) : pairs[j].score <= pairs[i].score
                        /\ \A j \in 1..(i - 1) : pairs[j].score < pairs[i].score
         IN  <<pairs[best]>> \o SortByScoreDesc(RemoveAt(pairs, best))

Zip(sequences, scores) ==
    [i \in 1..Len(sequences) |-> [seq |-> sequences[i], score |-> scores[i]]]

Unzip(pairs) ==
    [seqs |-> [i \in 1..Len(pairs) |-> pairs[i].seq],
     scores |-> [i \in 1..Len(pairs) |-> pairs[i].score]]

Max(a, b) == IF a >= b THEN a ELSE b
Min(a, b) == IF a <= b THEN a ELSE b

apply_quality_filtering(sequences, scores) ==
    IF scores = <<>> THEN [seqs |-> sequences, scores |-> scores]
    ELSE LET AtLeast(p) == p.score >= quality_threshold
             filtered_pairs == SelectSeq(Zip(sequences, scores), AtLeast)
             sorted_pairs == SortByScoreDesc(Zip(sequences, scores))
             keep_count == Max(1, Len(sorted_pairs) \div 2)
         IN  IF filtered_pairs = <<>>
             THEN Unzip(SubSeq(sorted_pairs, 1, keep_count))
             ELSE Unzip(filtered_pairs)

\* a length adjustment that pads short lists but lets long ones through
adjust_sequence_length_no_truncate(ext, sequences, target_length) ==
    IF Len(sequences) >= target_length THEN sequences
    ELSE sequences \o
            [i \in 1..(target_length - Len(sequences)) |-> PaddingFrame(0, feature_dim)]

adjust_sequence_length(ext, sequences, target_length) ==
    IF Len(sequences) = target_length THEN sequences
    ELSE IF Len(sequences) > target_length
    THEN SubSeq(sequences, Len(sequences) - target_length + 1, Len(sequences))
    ELSE LET padding_needed == target_length - Len(sequences)
             zero_normalized ==
                 IF ext.normalization_loaded
                 THEN PaddingFrame(Clip(ZScore(0, ext.feature_means, ext.feature_stds)),
                                   feature_dim)
                 ELSE PaddingFrame(0, feature_dim)
         IN  IF sequences # <<>>
             THEN sequences \o [i \in 1..padding_needed |-> zero_normalized]
             ELSE [i \in 1..target_length |-> PaddingFrame(0, feature_dim)]

NoResult ==
    [op |-> "none", success |-> FALSE, pose_sequence |-> <<>>, sequence_length |-> 0,
     feature_dimension |-> 0, normalized |-> FALSE, raw_frames |-> 0,
     filtered_frames |-> 0, detected_frames |-> 0, raw |-> <<>>, passed_on |-> <<>>,
     raised |-> FALSE, input_frames |-> 0, max_frames |-> 0, sampled |-> <<>>]

create_error_response(op) == [NoResult EXCEPT !.op = op]

Detected(raw_sequences) ==
    Cardinality({i \in 1..Len(raw_sequences) : raw_sequences[i].det})

\* history: the source position and score of each frame of a list
Tagged(sequences, scores) ==
    [i \in 1..Len(sequences) |-> [src |-> sequences[i].src, score |-> scores[i]]]

finalize_processing(op, ext, cfg, raw_sequences, quality_scores) ==
    LET unfiltered == [seqs |-> raw_sequences, scores |-> quality_scores]
        first == IF cfg.enable_quality_filtering
                 THEN apply_quality_filtering(raw_sequences, quality_scores)
                 ELSE unfiltered
        filtered == IF Len(first.seqs) < MinFilteredFrames THEN unfiltered ELSE first
        normalized == apply_normalization(ext, filtered.seqs)
        final_sequences == adjust_sequence_length(ext, normalized.seqs, cfg.sequence_length)
    IN  [op |-> op, success |-> TRUE, pose_sequence |-> final_sequences,
         sequence_length |-> Len(final_sequences),
         feature_dimension |-> IF final_sequences # <<>>
                               THEN final_sequences[1].width ELSE 0,
         normalized |-> normalized.ok,
         raw_frames |-> Len(raw_sequences),
         filtered_frames |-> Len(filtered.seqs),
         detected_frames |-> Detected(raw_sequences),
         raw |-> Tagged(raw_sequences, quality_scores),
         passed_on |-> Tagged(filtered.seqs, filtered.scores),
         raised |-> FALSE, input_frames |-> 0, max_frames |-> 0, sampled |-> <<>>]

\* the frames the loop appends: unreadable ones are skipped by `continue`
Readable(item) == item.kind.readable

Encode(items) ==
    LET read == SelectSeq(items, Readable)
    IN  [seqs |-> [i \in 1..Len(read) |-> RawFrame(read[i])],
         scores |-> [i \in 1..Len(read) |-> read[i].kind.q]]

\* history: the size of the source, the limit asked for and the source
\* positions of the frames sampled
Requested(r, source, max_frames, selected) ==
    [r EXCEPT !.input_frames = Len(source), !.max_frames = max_frames,
              !.sampled = [i \in 1..Len(selected) |-> selected[i].src]]

process_frame_sequence(ext, cfg, frame_paths, max_frames) ==
    LET selected_paths == select_best_frames(frame_paths, max_frames)
        enc == Encode(selected_paths)
    IN  Requested(
            IF enc.seqs = <<>> THEN create_error_response("process_frame_sequence")
            ELSE finalize_processing("process_frame_sequence", ext, cfg, enc.seqs,
                                     enc.scores),
            frame_paths, max_frames, selected_paths)

\* range(a, b, step)
RangeSeq(a, b, step) ==
    IF b <= a THEN <<>>
    ELSE [i \in 1..(((b - a) + (step - 1)) \div step) |-> a + ((i - 1) * step)]

Take(s, n) == SubSeq(s, 1, Min(Len(s), n))

\* _calculate_smart_sampling: 0-based frame indices, or the ZeroDivisionError
\* of `start_idx // edge_per_side`.  int(n * 0.2), int(n * 0.8) and
\* int(n * 0.7) equal the integer quotients for every n below 90; the three
\* index ranges are disjoint and rising, so the sort is their concatenation
calculate_smart_sampling(total_frames, max_frames) ==
    IF total_frames <= max_frames
    THEN [raised |-> FALSE, indices |-> RangeSeq(0, total_frames, 1)]
    ELSE LET start_idx == (total_frames * 2) \div 10
             end_idx == (total_frames * 8) \div 10
             middle_frames == Max((max_frames * 7) \div 10, 1)
             edge_frames == max_frames - middle_frames
             middle_step == Max(1, (end_idx - start_idx) \div middle_frames)
             middle == Take(RangeSeq(start_idx, end_idx, middle_step), middle_frames)
             edge_per_side == edge_frames \div 2
             beginning ==
                 Take(RangeSeq(0, start_idx, Max(1, start_idx \div edge_per_side)),
                      max_frames - Len(middle))
             ending ==
                 IF Len(middle) + Len(beginning) < max_frames
                 THEN Take(RangeSeq(end_idx, total_frames,
                                    Max(1, (total_frames - end_idx) \div edge_per_side)),
                           max_frames - (Len(middle) + Len(beginning)))
                 ELSE <<>>
         IN  IF edge_frames <= 0 THEN [raised |-> FALSE, indices |-> middle]
             ELSE IF edge_per_side = 0 THEN [raised |-> TRUE, indices |-> <<>>]
             ELSE [raised |-> FALSE,
                   indices |-> Take(beginning \o middle \o ending, max_frames)]

\* process_video_file on a file that opens: a frame that cannot be read is
\* skipped by `continue`; an exception of the sampling leaves through the
\* `finally` and reaches the caller
process_video_file(ext, cfg, video, max_frames) ==
    LET total_frames == Len(video)
        sampling == IF total_frames <= max_frames
                    THEN [raised |-> FALSE, indices |-> RangeSeq(0, total_frames, 1)]
                    ELSE calculate_smart_sampling(total_frames, max_frames)
        frame_indices == sampling.indices
        sampled == [i \in 1..Len(frame_indices) |-> video[frame_indices[i] + 1]]
        enc == Encode(sampled)
        raw_sequences == Take(enc.seqs, max_frames)
        quality_scores == Take(enc.scores, max_frames)
    IN  Requested(
            IF sampling.raised
            THEN [create_error_response("process_video_file") EXCEPT !.raised = TRUE]
            ELSE IF raw_sequences = <<>> THEN create_error_response("process_video_file")
            ELSE finalize_processing("process_video_file", ext, cfg, raw_sequences,
                                     quality_scores),
            video, max_frames, sampled)

(***************************************************************************)
(* PoseFeatureExtractor.process_sequence                                   *)
(***************************************************************************)
\* no normalization, no flag: the array is all the caller gets
pfe_process_sequence(image_paths, target_frames) ==
    LET read == SelectSeq(image_paths, Readable)
        sequence_features ==
            [i \in 1..Min(Len(read), target_frames) |-> RawFrame(read[i])]
        padded == sequence_features \o
            [i \in 1..(target_frames - Len(sequence_features)) |->
                PaddingFrame(0, feature_dim)]
    IN  SubSeq(padded, 1, target_frames)

(***************************************************************************)
(* EnhancedSignLanguagePredictor                                           *)
(***************************************************************************)
\* classes the trained model tells apart
NumClasses == 2

ErrorText == <<"error", "", 0>>
Label(source, idx) == <<"label", source, idx>>

create_fallback_model(o, vocabulary) ==
    LET vocab == IF vocabulary.keys = {}
                 THEN [keys |-> 0..(DefaultVocabularySize - 1), source |-> "default"]
                 ELSE vocabulary
    IN  [feature_means |-> o.feature_means, feature_stds |-> o.feature_stds,
         normalization_loaded |-> o.normalization_loaded,
         is_loaded |-> TRUE, model |-> "fallback",
         num_outputs |-> Cardinality(vocab.keys), vocabulary |-> vocab]

NoVocabulary == [keys |-> {}, source |-> "none"]

load_model_and_resources(o, f) ==
    IF f.model # "ok" THEN create_fallback_model(o, NoVocabulary)
    ELSE IF f.mappings.status = "corrupt" THEN create_fallback_model(o, NoVocabulary)
    ELSE [feature_means |-> o.feature_means, feature_stds |-> o.feature_stds,
          normalization_loaded |-> o.normalization_loaded,
          is_loaded |-> TRUE, model |-> "trained", num_outputs |-> f.num_outputs,
          vocabulary |->
              IF f.mappings.status = "ok"
              THEN [keys |-> f.mappings.keys, source |-> "loaded"]
              ELSE [keys |-> 0..(DefaultVocabularySize - 1), source |-> "default"]]

\* EnhancedSignLanguagePredictor.__init__
PredictorInit(f) == load_model_and_resources(load_normalization_params(f.norm), f)

PreprocessError == [ok |-> FALSE, data |-> <<>>, normalization_applied |-> FALSE]

preprocess_sequence(p, sequence) ==
    IF sequence = <<>> THEN PreprocessError
    ELSE IF \E i \in 1..Len(sequence) : sequence[i].width # sequence[1].width
    THEN PreprocessError
    ELSE IF sequence[1].width # feature_dim THEN PreprocessError
    ELSE LET normalized_data ==
                 IF p.normalization_loaded
                 THEN [i \in 1..Len(sequence) |-> NormFrame(sequence[i], p)]
                 ELSE sequence
             zero_frame ==
                 IF p.normalization_loaded
                 THEN PaddingFrame(Clip(ZScore(0, p.feature_means, p.feature_stds)),
                                   feature_dim)
                 ELSE PaddingFrame(0, feature_dim)
             n == Len(normalized_data)
             data ==
                 IF n > sequence_length
                 THEN SubSeq(normalized_data, n - sequence_length + 1, n)
                 ELSE IF n < sequence_length
                 THEN [i \in 1..(sequence_length - n) |-> zero_frame] \o normalized_data
                 ELSE normalized_data
         IN  IF Len(data) # sequence_length THEN PreprocessError
             ELSE [ok |-> TRUE, data |-> data,
                   normalization_applied |-> p.normalization_loaded]

NoPred ==
    [op |-> "none", success |-> FALSE, predicted_text |-> ErrorText,
     predicted_class_idx |-> -1, argmax |-> -1, normalized |-> FALSE,
     input_frames |-> 0,
     input_width |-> 0, model_run |-> "none", model_input |-> <<>>]

\* predicted_class is the argmax of what the model returns for the input
predict(p, sequence, predicted_class) ==
    LET failure == [NoPred EXCEPT !.op = "predict",
                                  !.input_frames = Len(sequence),
                                  !.input_width = IF sequence = <<>> THEN 0
                                                  ELSE sequence[1].width]
        pre == preprocess_sequence(p, sequence)
        ran == [failure EXCEPT !.model_run = p.model, !.model_input = pre.data,
                               !.argmax = predicted_class]
    IN  IF ~p.is_loaded THEN failure
        ELSE IF ~pre.ok THEN failure
        ELSE IF predicted_class >= Cardinality(p.vocabulary.keys) THEN ran
        ELSE IF predicted_class \notin p.vocabulary.keys THEN ran
        ELSE [ran EXCEPT !.success = TRUE,
                         !.predicted_text = Label(p.vocabulary.source, predicted_class),
                         !.predicted_class_idx = predicted_class,
                         !.normalized = pre.normalization_applied]

(***************************************************************************)
(* The extractor chained to the predictor                                  *)
(***************************************************************************)
\* max_frames as the callers pass it: 1 per live frame, the default 30, or
\* the request's own value
MaxFramesArgs == {1, sequence_length, MaxFrames}

FullMappings == [status |-> "ok", keys |-> 0..(NumClasses - 1)]

PipeFiles ==
    [norm : {n \in NormFiles : n.status # "corrupt"}, model : {"ok"}, mappings : {FullMappings},
     num_outputs : {NumClasses}]

PipeInit ==
    /\ files \in PipeFiles
    /\ config \in [enable_quality_filtering : BOOLEAN, sequence_length : {sequence_length}]
    /\ extractor = load_normalization_params(files.norm)
    /\ predictor = PredictorInit(files)
    /\ result = NoResult
    /\ pfe_seq = <<>>
    /\ pred = NoPred
    /\ rt_filtered = <<>>

ProcessFrameSequence ==
    /\ result.op = "none"
    /\ pfe_seq = <<>>
    /\ rt_filtered = <<>>
    /\ \E frame_paths \in Sources, max_frames \in MaxFramesArgs :
          result' = process_frame_sequence(extractor, config, frame_paths, max_frames)
    /\ UNCHANGED <<files, config, extractor, pfe_seq, predictor, pred, rt_filtered>>
    /\ UNCHANGED notPipe

PfeProcessSequence ==
    /\ result.op = "none"
    /\ pfe_seq = <<>>
    /\ rt_filtered = <<>>
    /\ \E image_paths \in Sources : pfe_seq' = pfe_process_sequence(image_paths, sequence_length)
    /\ UNCHANGED <<files, config, extractor, result, predictor, pred, rt_filtered>>
    /\ UNCHANGED notPipe

\* the caller hands the extractor's pose_sequence to predict
ChainPredict ==
    /\ result.success
    /\ pred.op = "none"
    /\ \E c \in 0..(predictor.num_outputs - 1) :
          pred' = predict(predictor, result.pose_sequence, c)
    /\ UNCHANGED <<files, config, extractor, result, pfe_seq, predictor, rt_filtered>>
    /\ UNCHANGED notPipe

\* RealTimeProcessor._extract_pose_from_frame: the first frame of the extractor's
\* result for the one frame, and the frame's quality score
extract_pose_from_frame(ext, cfg, item) ==
    LET r == process_frame_sequence(ext, cfg, <<item>>, 1)
    IN  [success |-> r.success /\ r.pose_sequence # <<>>,
         features |-> IF r.pose_sequence # <<>> THEN r.pose_sequence[1]
                      ELSE PaddingFrame(0, feature_dim),
         quality_score |-> item.kind.q]

\* pose_buffer and quality_scores after process_frame on each frame in turn:
\* the latest buffer_size frames whose extraction succeeded
RtBuffer(ext, cfg, frames) ==
    LET pose_results == [i \in 1..Len(frames) |-> extract_pose_from_frame(ext, cfg, frames[i])]
        Extracted(pose_result) == pose_result.success
        got == SelectSeq(pose_results, Extracted)
        first == Max(1, Len(got) - buffer_size + 1)
    IN  [i \in 1..(Len(got) - first + 1) |->
            [seq |-> got[first + i - 1].features,
             score |-> got[first + i - 1].quality_score]]

\* RealTimeProcessor._apply_quality_filtering
rt_apply_quality_filtering(paired_data) ==
    IF paired_data = <<>> THEN <<>>
    ELSE LET AtLeast(p) == p.score >= quality_threshold
             filtered_pairs == SelectSeq(paired_data, AtLeast)
             kept == IF Len(filtered_pairs) < min_frames_for_prediction
                     THEN SubSeq(SortByScoreDesc(paired_data), 1,
                                 Min(min_frames_for_prediction, Len(paired_data)))
                     ELSE filtered_pairs
         IN  Unzip(kept).seqs

\* RealTimeProcessor._make_prediction, up to the sequence it hands to predict
RtMakePrediction ==
    /\ result.op = "none"
    /\ pfe_seq = <<>>
    /\ rt_filtered = <<>>
    /\ \E frames \in Sources :
          LET paired_data == RtBuffer(extractor, config, frames)
          IN  /\ Len(paired_data) >= min_frames_for_prediction
              /\ rt_filtered' = rt_apply_quality_filtering(paired_data)
    /\ UNCHANGED <<files, config, extractor, result, pfe_seq, predictor, pred>>
    /\ UNCHANGED notPipe

PipeNext ==
    \/ ProcessFrameSequence
    \/ PfeProcessSequence
    \/ ChainPredict
    \/ RtMakePrediction

\* longest video
MaxVideoFrames == 45

\* videos and long frame lists: a run of like frames and a short run after it
Videos ==
    {Source(<<n, m>>, k[1], k[2]) :
        n \in 0..MaxVideoFrames, m \in 0..1,
        k \in {HighQ, LowQ} \X {HighQ, Unreadable}}

\* max_frames as the callers of the video path pass it
VideoMaxFramesArgs == {1, 2, 3, 10, sequence_length}

ProcessVideoFile ==
    /\ result.op = "none"
    /\ \E video \in Videos, max_frames \in VideoMaxFramesArgs :
          /\ Len(video) <= MaxVideoFrames
          /\ result' = process_video_file(extractor, config, video, max_frames)
    /\ UNCHANGED <<files, config, extractor, pfe_seq, predictor, pred, rt_filtered>>
    /\ UNCHANGED notPipe

ProcessLongSequence ==
    /\ result.op = "none"
    /\ \E frame_paths \in Videos, max_frames \in VideoMaxFramesArgs :
          /\ Len(frame_paths) <= MaxVideoFrames
          /\ result' = process_frame_sequence(extractor, config, frame_paths, max_frames)
    /\ UNCHANGED <<files, config, extractor, pfe_seq, predictor, pred, rt_filtered>>
    /\ UNCHANGED notPipe

VideoNext ==
    \/ ProcessVideoFile
    \/ ProcessLongSequence

PipeIdle ==
    /\ files \in {f \in PipeFiles : f.norm.status = "absent"}
    /\ config = [enable_quality_filtering |-> TRUE, sequence_length |-> sequence_length]
    /\ extractor = load_normalization_params(files.norm)
    /\ predictor = PredictorInit(files)
    /\ result = NoResult
    /\ pfe_seq = <<>>
    /\ pred = NoPred
    /\ rt_filtered = <<>>

(***************************************************************************)
(* Label lookup of live_sequence_processor and enhanced_realtime_processor *)
(***************************************************************************)
BuiltinFallbackSize == 61

Synthetic(prefix, idx) == <<"synthetic", prefix, idx>>

\* load_class_mappings: {} when no file can be read
load_class_mappings(m) == IF m.status = "ok" THEN m.keys ELSE {}

\* live_sequence_processor.predict_sign; the model is the one find_working_model loaded
predict_sign(pose_sequence, class_mappings, predicted_class_idx) ==
    LET predicted_text ==
            IF class_mappings # {}
            THEN IF predicted_class_idx \in class_mappings
                 THEN Label("loaded", predicted_class_idx)
                 ELSE Synthetic("class_", predicted_class_idx)
            ELSE Synthetic("class_", predicted_class_idx)
    IN  [NoPred EXCEPT !.op = "predict_sign", !.success = TRUE,
                       !.predicted_text = predicted_text,
                       !.predicted_class_idx = predicted_class_idx,
                       !.argmax = predicted_class_idx,
                       !.input_frames = Len(pose_sequence),
                       !.input_width = pose_sequence[1].width,
                       !.model_run = "trained", !.model_input = pose_sequence]

map_class_to_text(class_mappings, class_idx) ==
    IF class_idx \in class_mappings THEN Label("loaded", class_idx)
    ELSE IF class_idx \in 0..(BuiltinFallbackSize - 1) THEN Label("builtin", class_idx)
    ELSE Synthetic("word_", class_idx)

\* EnhancedRealtimeProcessor.fallback_prediction: load_model raises without the file
fallback_prediction(f, pose_sequence, predicted_class_idx) ==
    IF f.model # "ok"
    THEN [NoPred EXCEPT !.op = "fallback_prediction",
                        !.input_frames = Len(pose_sequence),
                        !.input_width = pose_sequence[1].width]
    ELSE [NoPred EXCEPT !.op = "fallback_prediction", !.success = TRUE,
                        !.predicted_text =
                            map_class_to_text(load_class_mappings(f.mappings),
                                              predicted_class_idx),
                        !.predicted_class_idx = predicted_class_idx,
                        !.argmax = predicted_class_idx,
                        !.input_frames = Len(pose_sequence),
                        !.input_width = pose_sequence[1].width,
                        !.model_run = "trained", !.model_input = pose_sequence]

(***************************************************************************)
(* The predictor on its own: any caller's sequence, any files on disk      *)
(***************************************************************************)
\* a class_mappings.json that lacks the last class, or one in the middle
MappingFiles ==
    { FullMappings,
      [status |-> "ok", keys |-> 0..(NumClasses - 2)],
      [status |-> "ok", keys |-> (0..NumClasses) \ {1}],
      [status |-> "missing", keys |-> {}],
      [status |-> "corrupt", keys |-> {}] }

PredictFiles ==
    [norm : {n \in NormFiles : n.status = "absent" \/ n.std # 0},
     model : {"ok", "missing", "corrupt"}, mappings : MappingFiles,
     num_outputs : {NumClasses}]

\* sequences a caller may pass: n like frames of one width
PredictInputs ==
    {[i \in 1..n |-> [RawFrame([src |-> i, kind |-> HighQ]) EXCEPT !.width = w]] :
        n \in 0..MaxFrames, w \in {feature_dim, feature_dim - 1}}

PredictSpecInit ==
    /\ files \in PredictFiles
    /\ config = [enable_quality_filtering |-> TRUE, sequence_length |-> sequence_length]
    /\ extractor = load_normalization_params(files.norm)
    /\ predictor = PredictorInit(files)
    /\ result = NoResult
    /\ pfe_seq = <<>>
    /\ pred = NoPred
    /\ rt_filtered = <<>>

Predict ==
    /\ pred.op = "none"
    /\ \E sequence \in PredictInputs, c \in 0..(predictor.num_outputs - 1) :
          pred' = predict(predictor, sequence, c)
    /\ UNCHANGED <<files, config, extractor, result, pfe_seq, predictor, rt_filtered>>
    /\ UNCHANGED notPipe

\* process_live_sequence: frames -> PoseFeatureExtractor -> predict_sign
PredictSign ==
    /\ pred.op = "none"
    /\ files.model = "ok"
    /\ \E n \in 1..MaxShort, c \in 0..(files.num_outputs - 1) :
          pred' = predict_sign(
                      pfe_process_sequence(Source(<<n, 0>>, HighQ, HighQ), sequence_length),
                      load_class_mappings(files.mappings), c)
    /\ UNCHANGED <<files, config, extractor, result, pfe_seq, predictor, rt_filtered>>
    /\ UNCHANGED notPipe

FallbackPrediction ==
    /\ pred.op = "none"
    /\ \E n \in 1..MaxShort, c \in 0..(files.num_outputs - 1) :
          pred' = fallback_prediction(files,
                      pfe_process_sequence(Source(<<n, 0>>, HighQ, HighQ), sequence_length),
                      c)
    /\ UNCHANGED <<files, config, extractor, result, pfe_seq, predictor, rt_filtered>>
    /\ UNCHANGED notPipe

\* AttentionSignLanguagePredictor.preprocess_sequence: each frame is cut or
\* zero-filled to feature_dim columns, the list is cut to its first
\* sequence_length frames or filled with literal zero frames at the end
attention_preprocess_sequence(pose_sequence) ==
    LET processed_sequence ==
            [i \in 1..Len(pose_sequence) |-> [pose_sequence[i] EXCEPT !.width = feature_dim]]
    IN  IF Len(processed_sequence) > sequence_length
        THEN SubSeq(processed_sequence, 1, sequence_length)
        ELSE processed_sequence \o
                 [i \in 1..(sequence_length - Len(processed_sequence)) |->
                     PaddingFrame(0, feature_dim)]

\* AttentionSignLanguagePredictor.predict_from_pose_sequence; the label
\* encoder is the label file of this predictor
predict_from_pose_sequence(f, pose_sequence, predicted_idx) ==
    LET failure == [NoPred EXCEPT !.op = "predict_from_pose_sequence",
                                  !.input_frames = Len(pose_sequence),
                                  !.input_width = IF pose_sequence = <<>> THEN 0
                                                  ELSE pose_sequence[1].width]
        X == attention_preprocess_sequence(pose_sequence)
        ran == [failure EXCEPT !.model_run = "trained", !.model_input = X,
                               !.argmax = predicted_idx]
    IN  IF pose_sequence = <<>> THEN failure
        ELSE IF f.mappings.status # "ok" THEN ran
        ELSE IF predicted_idx \notin f.mappings.keys THEN ran
        ELSE [ran EXCEPT !.success = TRUE,
                         !.predicted_text = Label("loaded", predicted_idx),
                         !.predicted_class_idx = predicted_idx]

\* attention_sign_predictor.py main: the constructor raises without a model
AttentionPredict ==
    /\ pred.op = "none"
    /\ files.model = "ok"
    /\ \E pose_sequence \in PredictInputs, c \in 0..(files.num_outputs - 1) :
          pred' = predict_from_pose_sequence(files, pose_sequence, c)
    /\ UNCHANGED <<files, config, extractor, result, pfe_seq, predictor, rt_filtered>>
    /\ UNCHANGED notPipe

PredictNext ==
    \/ Predict
    \/ PredictSign
    \/ FallbackPrediction
    \/ AttentionPredict

(***************************************************************************)
(* Live sessions: StreamingAPI and the lesson-feedback service             *)
(***************************************************************************)
\* frames the first user may submit (more than a buffer holds), and the others
MaxLive == 31
MaxOther == 1

Users == {"A", "B"}
Cap(u) == IF u = "A" THEN MaxLive ELSE MaxOther

\* user u's k-th frame
LiveFrame(u, k) == <<u, k>>

\* a buffer that is never trimmed
add_to_buffer_untrimmed(pose_buffer, pose_features) ==
    Append(pose_buffer, pose_features)

\* RealTimeProcessor._add_to_buffer
add_to_buffer(pose_buffer, pose_features) ==
    LET appended == Append(pose_buffer, pose_features)
    IN  IF Len(appended) > buffer_size THEN Tail(appended) ELSE appended

\* EnhancedModelPredictor.add_frame_to_sequence
add_frame_to_sequence(sequence, features) ==
    LET appended == Append(sequence, features)
    IN  IF Len(appended) > sequence_length THEN Tail(appended) ELSE appended

SessIdle ==
    /\ service = "none"
    /\ active_sessions = [u \in {} |-> <<>>]
    /\ current_sequence = <<>>
    /\ sent = [u \in Users |-> 0]
    /\ since = [u \in Users |-> 0]

SessInit ==
    /\ service \in {"streaming", "lesson_feedback"}
    /\ active_sessions = [u \in {} |-> <<>>]
    /\ current_sequence = <<>>
    /\ sent = [u \in Users |-> 0]
    /\ since = [u \in Users |-> 0]

\* StreamingAPI.create_session: a RealTimeProcessor of its own per session
CreateSession ==
    /\ service = "streaming"
    /\ \E session_id \in Users :
          /\ session_id \notin DOMAIN active_sessions
          /\ active_sessions' =
                 [u \in DOMAIN active_sessions \cup {session_id} |->
                     IF u = session_id THEN <<>> ELSE active_sessions[u]]
          /\ since' = [since EXCEPT ![session_id] = sent[session_id]]
    /\ UNCHANGED <<service, current_sequence, sent>>
    /\ UNCHANGED notSess

\* StreamingAPI.process_frame_data -> RealTimeProcessor.process_frame, for a
\* frame whose pose is extracted
ProcessFrameData ==
    /\ service = "streaming"
    /\ \E session_id \in DOMAIN active_sessions :
          /\ sent[session_id] < Cap(session_id)
          /\ active_sessions' =
                 [active_sessions EXCEPT ![session_id] =
                     add_to_buffer(@, LiveFrame(session_id, sent[session_id] + 1))]
          /\ sent' = [sent EXCEPT ![session_id] = @ + 1]
    /\ UNCHANGED <<service, current_sequence, since>>
    /\ UNCHANGED notSess

\* StreamingAPI.close_session
CloseSession ==
    /\ service = "streaming"
    /\ \E session_id \in DOMAIN active_sessions :
          /\ active_sessions' =
                 [u \in DOMAIN active_sessions \ {session_id} |-> active_sessions[u]]
          /\ since' = [since EXCEPT ![session_id] = sent[session_id]]
    /\ UNCHANGED <<service, current_sequence, sent>>
    /\ UNCHANGED notSess

\* POST /analyze_pose: the one global predictor buffers the frame, whoever sent it
AnalyzePose ==
    /\ service = "lesson_feedback"
    /\ \E user_id \in Users :
          /\ sent[user_id] < Cap(user_id)
          /\ current_sequence' =
                 add_frame_to_sequence(current_sequence,
                                       LiveFrame(user_id, sent[user_id] + 1))
          /\ sent' = [sent EXCEPT ![user_id] = @ + 1]
    /\ UNCHANGED <<service, active_sessions, since>>
    /\ UNCHANGED notSess

\* POST /reset_session: analyzer.reset_session() clears the global buffer
ResetSession ==
    /\ service = "lesson_feedback"
    /\ \E user_id \in Users :
          /\ current_sequence' = <<>>
          /\ since' = [since EXCEPT ![user_id] = sent[user_id]]
    /\ UNCHANGED <<service, active_sessions, sent>>
    /\ UNCHANGED notSess

SessNext ==
    \/ CreateSession
    \/ ProcessFrameData
    \/ CloseSession
    \/ AnalyzePose
    \/ ResetSession

\* the frames u submitted since u's own last reset, oldest first
OwnFrames(u) == [k \in 1..(sent[u] - since[u]) |-> LiveFrame(u, since[u] + k)]

LastN(s, n) == IF Len(s) > n THEN SubSeq(s, Len(s) - n + 1, Len(s)) ELSE s

\* the sequence the service would use for u's next prediction
SequenceFor(u) ==
    IF service = "streaming"
    THEN IF u \in DOMAIN active_sessions THEN active_sessions[u] ELSE <<>>
    ELSE current_sequence

(***************************************************************************)
(* FrameQueueManager: one session's sequence buffer under concurrent calls *)
(***************************************************************************)
\* the manager's sequence_length (constructor argument), threads and calls
FqSequenceLength == 2
NumThreads == 3
MaxCalls == 4

Threads == 1..NumThreads
FqIdleThread == [op |-> "idle", pc |-> "idle", lock |-> 0, stale |-> {}]
FqNotYet == [kind |-> "nothing", frames |-> <<>>, stale |-> {}]

\* deque(maxlen=sequence_length).append
DequeAppend(d, x) ==
    IF Len(d) >= FqSequenceLength THEN Tail(d) \o <<x>> ELSE d \o <<x>>

\* FrameQueueManager.__init__
FqInit ==
    /\ fq_has_queue = FALSE
    /\ fq_sequences = 0
    /\ fq_locks = 0
    /\ fq_deque = [i \in Threads |-> <<>>]
    /\ fq_holder = [i \in Threads |-> 0]
    /\ fq_thread = [th \in Threads |-> FqIdleThread]
    /\ fq_calls = 0
    /\ fq_appended = 0
    /\ fq_stale = {}
    /\ fq_returned = FqNotYet

\* the manager as the threads find it: the session not yet made, or made by an
\* earlier create_session (deque 1, lock 1)
FqSessionInit ==
    /\ fq_has_queue \in BOOLEAN
    /\ fq_sequences = (IF fq_has_queue THEN 1 ELSE 0)
    /\ fq_locks = fq_sequences
    /\ fq_deque = [i \in Threads |-> <<>>]
    /\ fq_holder = [i \in Threads |-> 0]
    /\ fq_thread = [th \in Threads |-> FqIdleThread]
    /\ fq_calls = 0
    /\ fq_appended = 0
    /\ fq_stale = {}
    /\ fq_returned = FqNotYet

\* the call ends: the lock of a with block is released on the way out
FqLeave(th) ==
    /\ fq_thread' = [fq_thread EXCEPT ![th] = FqIdleThread]
    /\ fq_holder' = [l \in Threads |-> IF fq_holder[l] = th THEN 0 ELSE fq_holder[l]]

FqGoto(th, pc) == fq_thread' = [fq_thread EXCEPT ![th].pc = pc]

\* a thread calls add_to_sequence, get_sequence or clear_session
FqCall ==
    /\ fq_calls < MaxCalls
    /\ \E th \in Threads, op \in {"add", "get", "clear"} :
          /\ fq_thread[th].op = "idle"
          /\ fq_thread' = [fq_thread EXCEPT ![th] =
                               [op |-> op, pc |-> "check", lock |-> 0, stale |-> fq_stale]]
    /\ fq_calls' = fq_calls + 1
    /\ UNCHANGED <<fq_has_queue, fq_sequences, fq_locks, fq_deque, fq_holder,
                   fq_appended, fq_stale, fq_returned>>
    /\ UNCHANGED notFq

\* add_to_sequence: if session_id not in self.session_sequences
AddCheck ==
    /\ \E th \in Threads :
          /\ fq_thread[th].op = "add" /\ fq_thread[th].pc = "check"
          /\ FqGoto(th, IF fq_sequences = 0 THEN "create" ELSE "lock")
    /\ UNCHANGED <<fq_has_queue, fq_sequences, fq_locks, fq_deque, fq_holder,
                   fq_calls, fq_appended, fq_stale, fq_returned>>
    /\ UNCHANGED notFq

\* create_session: if session_id not in self.session_queues
CreateCheck ==
    /\ \E th \in Threads :
          /\ fq_thread[th].pc = "create"
          /\ FqGoto(th, IF fq_has_queue THEN "lock" ELSE "new_queue")
    /\ UNCHANGED <<fq_has_queue, fq_sequences, fq_locks, fq_deque, fq_holder,
                   fq_calls, fq_appended, fq_stale, fq_returned>>
    /\ UNCHANGED notFq

\* self.session_queues[session_id] = queue.Queue(...)
CreateQueue ==
    /\ \E th \in Threads :
          /\ fq_thread[th].pc = "new_queue"
          /\ FqGoto(th, "new_deque")
    /\ fq_has_queue' = TRUE
    /\ UNCHANGED <<fq_sequences, fq_locks, fq_deque, fq_holder,
                   fq_calls, fq_appended, fq_stale, fq_returned>>
    /\ UNCHANGED notFq

\* self.session_sequences[session_id] = deque(maxlen=...): the thread's own new deque
CreateDeque ==
    /\ \E th \in Threads :
          /\ fq_thread[th].pc = "new_deque"
          /\ FqGoto(th, "new_lock")
          /\ fq_sequences' = th
          /\ fq_deque' = [fq_deque EXCEPT ![th] = <<>>]
    /\ UNCHANGED <<fq_has_queue, fq_locks, fq_holder,
                   fq_calls, fq_appended, fq_stale, fq_returned>>
    /\ UNCHANGED notFq

\* self.session_locks[session_id] = threading.Lock(): the thread's own new lock
CreateLock ==
    /\ \E th \in Threads :
          /\ fq_thread[th].pc = "new_lock"
          /\ FqGoto(th, "lock")
          /\ fq_locks' = th
    /\ UNCHANGED <<fq_has_queue, fq_sequences, fq_deque, fq_holder,
                   fq_calls, fq_appended, fq_stale, fq_returned>>
    /\ UNCHANGED notFq

\* with self.session_locks[session_id]: the lookup (KeyError ends the call),
\* then the acquire
LoadLock ==
    /\ \E th \in Threads :
          /\ fq_thread[th].pc = "lock"
          /\ IF fq_locks = 0
             THEN FqLeave(th)
             ELSE /\ fq_thread' = [fq_thread EXCEPT ![th].pc = "acquire",
                                                     ![th].lock = fq_locks]
                  /\ UNCHANGED fq_holder
    /\ UNCHANGED <<fq_has_queue, fq_sequences, fq_locks, fq_deque,
                   fq_calls, fq_appended, fq_stale, fq_returned>>
    /\ UNCHANGED notFq

Acquire ==
    /\ \E th \in Threads :
          /\ fq_thread[th].pc = "acquire"
          /\ fq_holder[fq_thread[th].lock] = 0
          /\ fq_holder' = [fq_holder EXCEPT ![fq_thread[th].lock] = th]
          /\ FqGoto(th, "body")
    /\ UNCHANGED <<fq_has_queue, fq_sequences, fq_locks, fq_deque,
                   fq_calls, fq_appended, fq_stale, fq_returned>>
    /\ UNCHANGED notFq

\* self.session_sequences[session_id].append(landmarks), and the lock released
AddToSequence ==
    /\ \E th \in Threads :
          /\ fq_thread[th].op = "add" /\ fq_thread[th].pc = "body"
          /\ FqLeave(th)
    /\ fq_appended' = fq_appended + 1
    /\ fq_deque' = [fq_deque EXCEPT ![fq_sequences] = DequeAppend(@, fq_appended + 1)]
    /\ UNCHANGED <<fq_has_queue, fq_sequences, fq_locks, fq_calls, fq_stale, fq_returned>>
    /\ UNCHANGED notFq

\* get_sequence: if session_id not in self.session_sequences: return None
GetCheck ==
    /\ \E th \in Threads :
          /\ fq_thread[th].op = "get" /\ fq_thread[th].pc = "check"
          /\ IF fq_sequences = 0
             THEN /\ FqLeave(th)
                  /\ fq_returned' = [kind |-> "None", frames |-> <<>>,
                                     stale |-> fq_thread[th].stale]
             ELSE /\ FqGoto(th, "lock")
                  /\ UNCHANGED <<fq_holder, fq_returned>>
    /\ UNCHANGED <<fq_has_queue, fq_sequences, fq_locks, fq_deque,
                   fq_calls, fq_appended, fq_stale>>
    /\ UNCHANGED notFq

\* if len(self.session_sequences[session_id]) >= self.sequence_length ... else: return None
GetLen ==
    /\ \E th \in Threads :
          /\ fq_thread[th].op = "get" /\ fq_thread[th].pc = "body"
          /\ IF Len(fq_deque[fq_sequences]) >= FqSequenceLength
             THEN /\ FqGoto(th, "return")
                  /\ UNCHANGED <<fq_holder, fq_returned>>
             ELSE /\ FqLeave(th)
                  /\ fq_returned' = [kind |-> "None", frames |-> <<>>,
                                     stale |-> fq_thread[th].stale]
    /\ UNCHANGED <<fq_has_queue, fq_sequences, fq_locks, fq_deque,
                   fq_calls, fq_appended, fq_stale>>
    /\ UNCHANGED notFq

\* return np.array(list(self.session_sequences[session_id]))
GetReturn ==
    /\ \E th \in Threads :
          /\ fq_thread[th].op = "get" /\ fq_thread[th].pc = "return"
          /\ FqLeave(th)
          /\ fq_returned' = [kind |-> "array", frames |-> fq_deque[fq_sequences],
                             stale |-> fq_thread[th].stale]
    /\ UNCHANGED <<fq_has_queue, fq_sequences, fq_locks, fq_deque,
                   fq_calls, fq_appended, fq_stale>>
    /\ UNCHANGED notFq

\* clear_session: if session_id in self.session_queues (the frame queue is drained)
ClearCheck ==
    /\ \E th \in Threads :
          /\ fq_thread[th].op = "clear" /\ fq_thread[th].pc = "check"
          /\ IF fq_has_queue
             THEN /\ FqGoto(th, "lock")
                  /\ UNCHANGED <<fq_holder, fq_stale>>
             ELSE /\ FqLeave(th)
                  /\ fq_stale' = 1..fq_appended
    /\ UNCHANGED <<fq_has_queue, fq_sequences, fq_locks, fq_deque,
                   fq_calls, fq_appended, fq_returned>>
    /\ UNCHANGED notFq

\* self.session_sequences[session_id].clear(), the lock released, the call complete
Clear ==
    /\ \E th \in Threads :
          /\ fq_thread[th].op = "clear" /\ fq_thread[th].pc = "body"
          /\ FqLeave(th)
    /\ fq_deque' = [fq_deque EXCEPT ![fq_sequences] = <<>>]
    /\ fq_stale' = 1..fq_appended
    /\ UNCHANGED <<fq_has_queue, fq_sequences, fq_locks, fq_calls, fq_appended, fq_returned>>
    /\ UNCHANGED notFq

FqNext ==
    \/ FqCall
    \/ AddCheck
    \/ CreateCheck
    \/ CreateQueue
    \/ CreateDeque
    \/ CreateLock
    \/ LoadLock
    \/ Acquire
    \/ AddToSequence
    \/ GetCheck
    \/ GetLen
    \/ GetReturn
    \/ ClearCheck
    \/ Clear

(***************************************************************************)
(* The fit of the normalization parameters                                 *)
(***************************************************************************)
\* videos a calculator collects before it fits
MaxCorpusVideos == 2

\* a fitted std is num/den + eps * 1e-8
NoFit ==
    [by |-> "none", ok |-> FALSE, feature_means |-> 0,
     feature_stds |-> [num |-> 0, den |-> 1, eps |-> 0], normalized |-> <<>>]

\* NormalizationCalculator.__init__
FitIdle ==
    /\ all_features = <<>>
    /\ fit = NoFit

RECURSIVE Sum(_)
Sum(s) == IF s = <<>> THEN 0 ELSE Head(s) + Sum(Tail(s))

\* the whole part of the square root of v
ISqrt(v) == CHOOSE r \in 0..v : r * r <= v /\ (r + 1) * (r + 1) > v

\* np.mean(axis=0) on the model's integer grid
MeanOf(xs) == Sum(xs) \div Len(xs)

\* np.std(axis=0): sqrt(n * sum(x^2) - sum(x)^2) / n, 0 exactly when the
\* feature is constant
StdOf(xs) ==
    LET squares == [i \in 1..Len(xs) |-> xs[i] * xs[i]]
    IN  [num |-> ISqrt((Len(xs) * Sum(squares)) - (Sum(xs) * Sum(xs))),
         den |-> Len(xs), eps |-> 0]

Values(frames) == [i \in 1..Len(frames) |-> frames[i].x]

\* the training videos of one class directory
TrainingVideos ==
    {Source(<<n, m>>, k, HighQ) :
        n \in {0, 2, sequence_length}, m \in 0..1, k \in {Blank, LowQ, HighQ}}

\* one turn of the loop of process_training_videos: process_video_file with
\* the default limit, its pose_sequence appended to all_features
ProcessTrainingVideo ==
    /\ fit.by = "none"
    /\ Len(all_features) < MaxCorpusVideos * sequence_length
    /\ \E video \in TrainingVideos :
          LET r == process_video_file(extractor, config, video, sequence_length)
          IN  all_features' =
                  IF r.success /\ Len(r.pose_sequence) > 0
                  THEN all_features \o r.pose_sequence
                  ELSE all_features
    /\ UNCHANGED fit
    /\ UNCHANGED notFit

\* a fit that hands np.std on as it is
calculate_normalization_parameters_raw_std(features) ==
    [NoFit EXCEPT !.by = "calculate_normalization_parameters", !.ok = TRUE,
                  !.feature_means = MeanOf(Values(features)),
                  !.feature_stds = StdOf(Values(features))]

calculate_normalization_parameters(features) ==
    LET feature_means == MeanOf(Values(features))
        feature_stds == StdOf(Values(features))
    IN  [NoFit EXCEPT !.by = "calculate_normalization_parameters", !.ok = TRUE,
                      !.feature_means = feature_means,
                      !.feature_stds =
                          IF feature_stds.num = 0
                          THEN [num |-> 0, den |-> 1, eps |-> 1]
                          ELSE feature_stds]

\* calculate_normalization.py main after the videos are processed: without
\* features it reports the failure, else it fits and saves
CalculateNormalization ==
    /\ fit.by = "none"
    /\ fit' = IF all_features = <<>>
              THEN [NoFit EXCEPT !.by = "calculate_normalization_parameters"]
              ELSE calculate_normalization_parameters(all_features)
    /\ UNCHANGED all_features
    /\ UNCHANGED notFit

\* (x - mean) / (num/den + eps * 1e-8) rounded down to the integer grid: the
\* 1e-8 lowers a positive whole quotient below itself
FitZScore(x, mean, std) ==
    IF std.num = 0 THEN (x - mean) * EpsDen
    ELSE LET a == (x - mean) * std.den
         IN  IF std.eps > 0 /\ a > 0 /\ a % std.num = 0
             THEN (a \div std.num) - 1
             ELSE a \div std.num

\* X_array.reshape(-1, X_array.shape[-1])
RECURSIVE Reshape(_)
Reshape(X) == IF X = <<>> THEN <<>> ELSE Head(X) \o Reshape(Tail(X))

\* TrainingDataPreparer.normalize_features: X is a list of sequences
normalize_features(X) ==
    LET X_flat == Values(Reshape(X))
        feature_means == MeanOf(X_flat)
        feature_stds == [StdOf(X_flat) EXCEPT !.eps = 1]
    IN  [NoFit EXCEPT !.by = "normalize_features", !.ok = TRUE,
                      !.feature_means = feature_means,
                      !.feature_stds = feature_stds,
                      !.normalized =
                          [s \in 1..Len(X) |->
                              [i \in 1..Len(X[s]) |->
                                  FitZScore(X[s][i].x, feature_means, feature_stds)]]]

\* the pose sequences of the training folders: equally long lists of raw frames
TrainingSequences ==
    {Encode(Source(l, k[1], k[2])).seqs :
        l \in {<<2, 0>>, <<1, 1>>}, k \in {Blank, LowQ, HighQ} \X {Blank, LowQ, HighQ}}

NormalizeFeatures ==
    /\ fit.by = "none"
    /\ all_features = <<>>
    /\ \E s1 \in TrainingSequences, s2 \in TrainingSequences, n \in 1..2 :
          fit' = normalize_features(SubSeq(<<s1, s2>>, 1, n))
    /\ UNCHANGED all_features
    /\ UNCHANGED notFit

FitNext ==
    \/ ProcessTrainingVideo
    \/ CalculateNormalization
    \/ NormalizeFeatures

(***************************************************************************)
(* Reported class and confidence                                           *)
(***************************************************************************)
\* a probability is a whole number of parts out of ProbSteps
ProbSteps == 12
\* EnhancedModelPredictor.class_to_index has the classes 0..59
LessonClasses == 60

\* what model.predict may return for n classes
ProbVectors(n) == {v \in [1..n -> 0..ProbSteps] : Sum(v) = ProbSteps}

\* np.argmax: the first index of the largest entry, counted from 0
ArgMax(v) ==
    (CHOOSE i \in 1..Len(v) :
        /\ \A j \in 1..Len(v) : v[j] <= v[i]
        /\ \A j \in 1..(i - 1) : v[j] < v[i]) - 1

\* confidence is a fraction num/den; confidence_score counts hundredths of a
\* percent
NoReport ==
    [fn |-> "none", success |-> FALSE, vector |-> <<>>, class_idx |-> -1,
     confidence |-> [num |-> 0, den |-> 1], confidence_score |-> 0]

ConfIdle == report = NoReport

\* round(num/den, 2) in hundredths
Round2(num, den) == ((2 * num * 100) + den) \div (2 * den)

\* EnhancedSignLanguagePredictor.predict, with the vector the model returned
predict_confidence(p, sequence, prediction_vector) ==
    LET predicted_class == ArgMax(prediction_vector)
        r == predict(p, sequence, predicted_class)
    IN  IF r.success
        THEN [NoReport EXCEPT !.fn = "predict", !.success = TRUE,
                              !.vector = prediction_vector,
                              !.class_idx = r.predicted_class_idx,
                              !.confidence = [num |-> prediction_vector[predicted_class + 1],
                                              den |-> ProbSteps]]
        ELSE [NoReport EXCEPT !.fn = "predict", !.vector = prediction_vector]

PredictConfidence ==
    /\ pred.op = "none"
    /\ files.model = "ok"
    /\ \E n \in {1, sequence_length}, prediction_vector \in ProbVectors(files.num_outputs) :
          LET sequence == [i \in 1..n |-> RawFrame([src |-> i, kind |-> HighQ])]
          IN  /\ pred' = predict(predictor, sequence, ArgMax(prediction_vector))
              /\ report' = predict_confidence(predictor, sequence, prediction_vector)
    /\ UNCHANGED <<files, config, extractor, result, pfe_seq, predictor, rt_filtered>>
    /\ UNCHANGED <<encVars, sessVars, fqVars, fitVars, quality, mgr, rtp>>

\* EnhancedModelPredictor.predict_sign: None or the class with its confidence
\* in percent
lesson_predict_sign(model_loaded, sequence, predictions) ==
    IF ~model_loaded THEN [sign |-> -1, num |-> 0]
    ELSE IF Len(sequence) < sequence_length THEN [sign |-> -1, num |-> 0]
    ELSE IF ArgMax(predictions) \notin 0..(LessonClasses - 1) THEN [sign |-> -1, num |-> 0]
    ELSE [sign |-> ArgMax(predictions), num |-> predictions[ArgMax(predictions) + 1] * 100]

\* EnhancedModelPredictor.analyze_with_trained_model after the frame is
\* buffered; model_confidence is num / ProbSteps percent
analyze_with_trained_model(model_loaded, sequence, predictions, expected_sign) ==
    LET p == lesson_predict_sign(model_loaded, sequence, predictions)
        is_correct == p.sign = expected_sign
        boosted == IF p.num >= 70 * ProbSteps THEN Round2(p.num, ProbSteps)
                   ELSE Round2(70, 1)
        reduced == IF p.num * 7 <= 60 * ProbSteps * 10
                   THEN Round2(p.num * 7, ProbSteps * 10)
                   ELSE Round2(60, 1)
    IN  IF p.sign = -1
        THEN [NoReport EXCEPT !.fn = "analyze_with_trained_model",
                              !.vector = predictions]
        ELSE [NoReport EXCEPT !.fn = "analyze_with_trained_model", !.success = TRUE,
                              !.vector = predictions, !.class_idx = p.sign,
                              !.confidence_score = IF is_correct THEN boosted
                                                   ELSE reduced]

\* POST /analyze_pose with the model's answer for the buffered frames
AnalyzeWithTrainedModel ==
    /\ service = "lesson_feedback"
    /\ sent["A"] < MaxLive
    /\ \E predictions \in ProbVectors(files.num_outputs),
          expected_sign \in 0..(files.num_outputs - 1) :
          LET sequence == add_frame_to_sequence(current_sequence,
                                                LiveFrame("A", sent["A"] + 1))
          IN  /\ current_sequence' = sequence
              /\ report' = analyze_with_trained_model(files.model = "ok", sequence,
                                                      predictions, expected_sign)
    /\ sent' = [sent EXCEPT !["A"] = @ + 1]
    /\ UNCHANGED <<service, active_sessions, since>>
    /\ UNCHANGED <<encVars, pipeVars, fqVars, fitVars, quality, mgr, rtp>>

ConfidenceNext ==
    \/ PredictConfidence
    \/ AnalyzeWithTrainedModel

\* the lesson-feedback service and a predictor, both freshly started
SessLesson ==
    /\ service = "lesson_feedback"
    /\ active_sessions = [u \in {} |-> <<>>]
    /\ current_sequence = <<>>
    /\ sent = [u \in Users |-> 0]
    /\ since = [u \in Users |-> 0]

(***************************************************************************)
(* EnhancedPoseExtractor._calculate_quality_score                          *)
(***************************************************************************)
\* per-group qualities and the variance term come in thousandths; scores are
\* counted in parts of QOne, the score 1.0
QScale == 10000
QOne == 10 * feature_dim * QScale

NoQuality ==
    [called |-> FALSE, features |-> 0, zeros |-> 0, var1000 |-> 0, lh_q |-> 0,
     rh_q |-> 0, pose_q |-> 0, face_q |-> 0, combined |-> 0, score |-> 0]

QualIdle == quality = NoQuality

\* component_score * 0.5 + data_quality * 0.3 + motion_variance * 0.2, where
\* zeros of the n features are below 1e-6 and var1000 is np.var * 1000
CombinedScore(n, zeros, var1000, lh_q, rh_q, pose_q, face_q) ==
    LET component_score == ((pose_q * 4) + (lh_q * 3) + (rh_q * 3) + (face_q * 0))
                               * feature_dim
        data_quality == Max(0, (feature_dim * QScale) - (zeros * QScale))
        motion_variance == Min(feature_dim * QScale, var1000 * (QScale \div 1000) * feature_dim)
    IN  (component_score * 5) + (data_quality * 3) + (motion_variance * 2)

\* a score handed back without the final max/min
calculate_quality_score_unclamped(n, zeros, var1000, lh_q, rh_q, pose_q, face_q) ==
    IF n # feature_dim THEN 0
    ELSE CombinedScore(n, zeros, var1000, lh_q, rh_q, pose_q, face_q)

calculate_quality_score(n, zeros, var1000, lh_q, rh_q, pose_q, face_q) ==
    IF n # feature_dim THEN 0
    ELSE Max(0, Min(QOne, CombinedScore(n, zeros, var1000, lh_q, rh_q, pose_q, face_q)))

\* finite inputs: group qualities inside and outside [0, 1], feature vectors
\* of 288 values and of one fewer, with few or many zeros, still or moving
QualityInputs == {-1000, 0, 500, 1000, 2000}

CalculateQualityScore ==
    /\ ~quality.called
    /\ \E n \in {feature_dim - 1, feature_dim}, zeros \in {0, 144, 287},
          var1000 \in {0, 500, 3000},
          lh_q \in QualityInputs, rh_q \in QualityInputs, pose_q \in QualityInputs,
          face_q \in {0, 1000} :
          quality' =
              [called |-> TRUE, features |-> n, zeros |-> zeros, var1000 |-> var1000,
               lh_q |-> lh_q, rh_q |-> rh_q, pose_q |-> pose_q, face_q |-> face_q,
               combined |-> CombinedScore(n, zeros, var1000, lh_q, rh_q, pose_q, face_q),
               score |-> calculate_quality_score(n, zeros, var1000, lh_q, rh_q, pose_q,
                                                 face_q)]
    /\ UNCHANGED <<encVars, pipeVars, sessVars, fqVars, fitVars, report, mgr, rtp>>

\* the extractor is ready for the next frame
QualityDone ==
    /\ quality.called
    /\ quality' = NoQuality
    /\ UNCHANGED <<encVars, pipeVars, sessVars, fqVars, fitVars, report, mgr, rtp>>

QualityNext ==
    \/ CalculateQualityScore
    \/ QualityDone

(***************************************************************************)
(* FrameQueueManager: sessions, frame queues and stats under its callers   *)
(***************************************************************************)
\* largest max_queue_size a manager is built with, and the calls one caller makes
MaxQueueSize == 2
MaxFrameCalls == 6
\* threads calling the manager at once, and the calls they make between them
MgrCallers == 2
MgrCalls == 4

MgrOps == {"create_session", "add_frame", "get_frame", "add_to_sequence", "remove_session"}
MgrIdleThread == [op |-> "idle", pc |-> "idle", call |-> 0, lock |-> 0, tmp |-> 0, frame |-> 0,
                  queue_before |-> <<>>, dropped_before |-> 0, full |-> FALSE]
MgrNoReturn == [op |-> "none", value |-> "none", frame |-> 0, full |-> FALSE,
                queue_before |-> <<>>, queue_after |-> <<>>,
                dropped_before |-> 0, dropped_after |-> 0]

\* FrameQueueManager.__init__(max_queue_size, sequence_length), and the threads
\* that call it
NewManager(max_queue_size, callers, budget) ==
    [max_queue_size |-> max_queue_size, callers |-> callers, budget |-> budget,
     has_queue |-> FALSE, queue |-> <<>>,
     has_sequence |-> FALSE, sequence |-> <<>>,
     lock |-> 0, holder |-> [l \in 1..budget |-> 0],
     stats |-> [frames_processed |-> 0, frames_dropped |-> 0, active_sessions |-> 0],
     thread |-> [th \in 1..callers |-> MgrIdleThread],
     calls |-> 0, added |-> 0, got |-> <<>>, failed |-> {}, returned |-> MgrNoReturn]

MgrIdle == mgr = NewManager(1, 0, 1)

\* queue.Queue(maxsize).put_nowait: maxsize <= 0 makes the queue unbounded
put_nowait_drops_oldest(q, item, maxsize) ==
    IF maxsize > 0 /\ Len(q) >= maxsize
    THEN [full |-> TRUE, queue |-> Tail(q) \o <<item>>]
    ELSE [full |-> FALSE, queue |-> q \o <<item>>]
put_nowait(q, item, maxsize) ==
    IF maxsize > 0 /\ Len(q) >= maxsize
    THEN [full |-> TRUE, queue |-> q]
    ELSE [full |-> FALSE, queue |-> q \o <<item>>]

MgrGoto(m, th, pc) == [m EXCEPT !.thread[th].pc = pc]

\* the call returns ret: a with block's lock is released on the way out
MgrLeave(m, th, ret) ==
    [m EXCEPT !.thread[th] = MgrIdleThread,
              !.holder = [l \in DOMAIN m.holder |-> IF m.holder[l] = th THEN 0 ELSE m.holder[l]],
              !.returned = [op |-> m.thread[th].op, value |-> ret,
                            frame |-> m.thread[th].frame,
                            full |-> m.thread[th].full,
                            queue_before |-> m.thread[th].queue_before,
                            queue_after |-> m.queue,
                            dropped_before |-> m.thread[th].dropped_before,
                            dropped_after |-> m.stats.frames_dropped]]

\* a dict lookup or del of a missing session_id: KeyError ends the call
MgrRaise(m, th, dict) ==
    [MgrLeave(m, th, "KeyError") EXCEPT !.failed = @ \cup {<<m.thread[th].op, dict>>}]

\* a caller starts one of the manager's operations
MgrCall ==
    /\ mgr.calls < mgr.budget
    /\ \E th \in DOMAIN mgr.thread, op \in MgrOps :
          /\ mgr.thread[th].op = "idle"
          /\ mgr' = [mgr EXCEPT !.calls = @ + 1,
                                !.thread[th] =
                                    [MgrIdleThread EXCEPT
                                        !.op = op,
                                        !.call = mgr.calls + 1,
                                        !.pc = IF op = "create_session" THEN "cs_check"
                                               ELSE "check",
                                        !.queue_before = mgr.queue,
                                        !.dropped_before = mgr.stats.frames_dropped]]
    /\ UNCHANGED notMgr

\* create_session, statement by statement; called by add_frame and
\* add_to_sequence too, which go on at their next statement
create_session(m, th) ==
    LET pc == m.thread[th].pc
        done == IF m.thread[th].op = "create_session" THEN MgrLeave(m, th, "None")
                ELSE MgrGoto(m, th, "created")
    IN  CASE pc = "cs_check" -> IF m.has_queue THEN done ELSE MgrGoto(m, th, "cs_queue")
          [] pc = "cs_queue" -> [MgrGoto(m, th, "cs_deque") EXCEPT !.has_queue = TRUE,
                                                                 !.queue = <<>>]
          [] pc = "cs_deque" -> [MgrGoto(m, th, "cs_lock") EXCEPT !.has_sequence = TRUE,
                                                                !.sequence = <<>>]
          [] pc = "cs_lock" -> [MgrGoto(m, th, "cs_read") EXCEPT !.lock = m.thread[th].call]
          [] pc = "cs_read" -> [MgrGoto(m, th, "cs_write") EXCEPT
                                   !.thread[th].tmp = m.stats.active_sessions]
          [] pc = "cs_write" -> [done EXCEPT !.stats.active_sessions = m.thread[th].tmp + 1]

CreateSessionStep ==
    /\ \E th \in DOMAIN mgr.thread :
          /\ mgr.thread[th].pc \in {"cs_check", "cs_queue", "cs_deque", "cs_lock",
                                    "cs_read", "cs_write"}
          /\ mgr' = create_session(mgr, th)
    /\ UNCHANGED notMgr

\* add_frame; a frame is its arrival number
add_frame(m, th) ==
    LET pc == m.thread[th].pc
        put == put_nowait(m.queue, m.added + 1, m.max_queue_size)
    IN  CASE pc = "check" -> MgrGoto(m, th, IF m.has_queue THEN "created" ELSE "cs_check")
          [] pc = "created" ->
                IF ~m.has_queue THEN MgrRaise(m, th, "session_queues")
                ELSE IF put.full
                THEN [MgrGoto(m, th, "drop_read") EXCEPT !.added = @ + 1,
                                                         !.queue = put.queue,
                                                         !.thread[th].full = TRUE]
                ELSE MgrLeave([m EXCEPT !.added = @ + 1, !.queue = put.queue], th, "True")
          [] pc = "drop_read" -> [MgrGoto(m, th, "drop_write") EXCEPT
                                     !.thread[th].tmp = m.stats.frames_dropped]
          [] pc = "drop_write" ->
                MgrLeave([m EXCEPT !.stats.frames_dropped = m.thread[th].tmp + 1],
                         th, "False")

AddFrameStep ==
    /\ \E th \in DOMAIN mgr.thread :
          /\ mgr.thread[th].op = "add_frame"
          /\ mgr.thread[th].pc \in {"check", "created", "drop_read", "drop_write"}
          /\ mgr' = add_frame(mgr, th)
    /\ UNCHANGED notMgr

\* get_frame: the head of the queue, or None when it stays empty for the timeout
get_frame(m, th) ==
    LET pc == m.thread[th].pc
    IN  CASE pc = "check" -> IF m.has_queue THEN MgrGoto(m, th, "get")
                             ELSE MgrLeave(m, th, "None")
          [] pc = "get" ->
                IF ~m.has_queue THEN MgrRaise(m, th, "session_queues")
                ELSE IF m.queue = <<>> THEN MgrLeave(m, th, "None")
                ELSE [MgrGoto(m, th, "got_read") EXCEPT !.queue = Tail(m.queue),
                                                        !.got = Append(@, Head(m.queue)),
                                                        !.thread[th].frame = Head(m.queue)]
          [] pc = "got_read" -> [MgrGoto(m, th, "got_write") EXCEPT
                                    !.thread[th].tmp = m.stats.frames_processed]
          [] pc = "got_write" ->
                MgrLeave([m EXCEPT !.stats.frames_processed = m.thread[th].tmp + 1],
                         th, "frame")

GetFrameStep ==
    /\ \E th \in DOMAIN mgr.thread :
          /\ mgr.thread[th].op = "get_frame"
          /\ mgr' = get_frame(mgr, th)
    /\ UNCHANGED notMgr

\* with self.session_locks[session_id]: the lookup, then the acquire
MgrLoadLock(m, th) ==
    IF m.lock = 0 THEN MgrRaise(m, th, "session_locks")
    ELSE [MgrGoto(m, th, "acquire") EXCEPT !.thread[th].lock = m.lock]
MgrAcquire(m, th) ==
    [MgrGoto(m, th, "body") EXCEPT !.holder[m.thread[th].lock] = th]
MgrBlocked(m, th) ==
    m.thread[th].pc = "acquire" /\ m.holder[m.thread[th].lock] # 0

\* add_to_sequence
add_to_sequence(m, th) ==
    LET pc == m.thread[th].pc
    IN  CASE pc = "check" -> MgrGoto(m, th, IF m.has_sequence THEN "created" ELSE "cs_check")
          [] pc = "created" -> MgrLoadLock(m, th)
          [] pc = "acquire" -> MgrAcquire(m, th)
          [] pc = "body" ->
                IF ~m.has_sequence THEN MgrRaise(m, th, "session_sequences")
                ELSE MgrLeave([m EXCEPT !.sequence = DequeAppend(@, m.thread[th].call)], th, "None")

MgrAddToSequenceStep ==
    /\ \E th \in DOMAIN mgr.thread :
          /\ mgr.thread[th].op = "add_to_sequence"
          /\ mgr.thread[th].pc \in {"check", "created", "acquire", "body"}
          /\ ~MgrBlocked(mgr, th)
          /\ mgr' = add_to_sequence(mgr, th)
    /\ UNCHANGED notMgr

\* remove_session, with the clear_session it calls
remove_session(m, th) ==
    LET pc == m.thread[th].pc
    IN  CASE pc = "check" -> IF m.has_queue THEN MgrGoto(m, th, "clear_check")
                             ELSE MgrLeave(m, th, "None")
          [] pc = "clear_check" -> MgrGoto(m, th, IF m.has_queue THEN "drain" ELSE "del_queue")
          [] pc = "drain" ->
                IF ~m.has_queue THEN MgrRaise(m, th, "session_queues")
                ELSE [MgrGoto(m, th, "load_lock") EXCEPT !.queue = <<>>]
          [] pc = "load_lock" -> MgrLoadLock(m, th)
          [] pc = "acquire" -> MgrAcquire(m, th)
          [] pc = "body" ->
                IF ~m.has_sequence THEN MgrRaise(m, th, "session_sequences")
                ELSE [MgrGoto(m, th, "del_queue") EXCEPT
                         !.sequence = <<>>,
                         !.holder[m.thread[th].lock] = 0]
          [] pc = "del_queue" ->
                IF ~m.has_queue THEN MgrRaise(m, th, "session_queues")
                ELSE [MgrGoto(m, th, "del_deque") EXCEPT !.has_queue = FALSE,
                                                         !.queue = <<>>]
          [] pc = "del_deque" ->
                IF ~m.has_sequence THEN MgrRaise(m, th, "session_sequences")
                ELSE [MgrGoto(m, th, "del_lock") EXCEPT !.has_sequence = FALSE,
                                                        !.sequence = <<>>]
          [] pc = "del_lock" ->
                IF m.lock = 0 THEN MgrRaise(m, th, "session_locks")
                ELSE [MgrGoto(m, th, "rs_read") EXCEPT !.lock = 0]
          [] pc = "rs_read" -> [MgrGoto(m, th, "rs_write") EXCEPT
                                   !.thread[th].tmp = m.stats.active_sessions]
          [] pc = "rs_write" ->
                MgrLeave([m EXCEPT !.stats.active_sessions = m.thread[th].tmp - 1],
                         th, "None")

RemoveSessionStep ==
    /\ \E th \in DOMAIN mgr.thread :
          /\ mgr.thread[th].op = "remove_session"
          /\ ~MgrBlocked(mgr, th)
          /\ mgr' = remove_session(mgr, th)
    /\ UNCHANGED notMgr

MgrNext ==
    \/ MgrCall
    \/ CreateSessionStep
    \/ AddFrameStep
    \/ GetFrameStep
    \/ MgrAddToSequenceStep
    \/ RemoveSessionStep

(***************************************************************************)
(* RealTimeProcessor: the frame buffer and the timing of predictions       *)
(***************************************************************************)
\* self.config.get('prediction_interval_ms', 1000)
prediction_interval == 1000
\* time.time() * 1000 when the processor is built, the step of the clock, the
\* steps it takes and the reset_buffer calls made
RtEpoch == 1000000
RtTickMs == 500
MaxTicks == 2
MaxResets == 1

\* the camera's frames: all extracted, the last one unreadable, or the first ones
RtStreams ==
    { Source(<<MaxFrames, 0>>, HighQ, HighQ),
      Source(<<MaxFrames - 1, 1>>, HighQ, Unreadable),
      Source(<<MaxShort, MaxFrames - MaxShort>>, Unreadable, LowQ) }

RtNoCall == [op |-> "none", success |-> FALSE, prediction_ready |-> FALSE,
             buffer_size |-> 0, time_since_last |-> 0, handed |-> 0,
             pose_buffer_before |-> <<>>, quality_scores_before |-> <<>>]

\* RealTimeProcessor.__init__, with the frames it is going to be given
NewProcessor(stream) ==
    [stream |-> stream, frame_counter |-> 0,
     pose_buffer |-> <<>>, quality_scores |-> <<>>,
     last_prediction_time |-> 0, now |-> RtEpoch, ticks |-> 0, resets |-> 0,
     predictions_made |-> 0, frames_processed |-> 0,
     extracted |-> <<>>, predicted_at |-> <<>>, reset_since_prediction |-> FALSE,
     reset_between |-> FALSE, buffered_since_reset |-> 0, last |-> RtNoCall]

RtpIdle == rtp = NewProcessor(<<>>)

\* should_predict of process_frame, and one that ignores the clock
should_predict_untimed(buffer_len, time_since_last) ==
    buffer_len >= min_frames_for_prediction
should_predict(buffer_len, time_since_last) ==
    /\ buffer_len >= min_frames_for_prediction
    /\ time_since_last >= prediction_interval

\* RealTimeProcessor.process_frame on the camera's next frame
process_frame(p, ext, cfg) ==
    LET item == p.stream[p.frame_counter + 1]
        pose_result == extract_pose_from_frame(ext, cfg, item)
        pose_buffer == add_to_buffer(p.pose_buffer, pose_result.features)
        quality_scores == add_to_buffer(p.quality_scores, pose_result.quality_score)
        current_time == p.now
        time_since_last == current_time - p.last_prediction_time
        ready == should_predict(Len(pose_buffer), time_since_last)
        handed == IF Len(pose_buffer) < min_frames_for_prediction THEN <<>>
                  ELSE IF cfg.enable_quality_filtering
                  THEN rt_apply_quality_filtering(Zip(pose_buffer, quality_scores))
                  ELSE pose_buffer
        call == [op |-> "process_frame", success |-> pose_result.success,
                 prediction_ready |-> FALSE, buffer_size |-> Len(p.pose_buffer),
                 time_since_last |-> 0, handed |-> 0,
                 pose_buffer_before |-> p.pose_buffer,
                 quality_scores_before |-> p.quality_scores]
    IN  IF ~pose_result.success
        THEN [p EXCEPT !.frame_counter = @ + 1, !.last = call]
        ELSE [p EXCEPT
                 !.frame_counter = @ + 1,
                 !.pose_buffer = pose_buffer,
                 !.quality_scores = quality_scores,
                 !.last_prediction_time = IF ready THEN current_time ELSE @,
                 !.predictions_made = IF ready THEN @ + 1 ELSE @,
                 !.frames_processed = @ + 1,
                 !.extracted = Append(@, item.src),
                 !.buffered_since_reset = @ + 1,
                 !.predicted_at = IF ready THEN Append(@, current_time) ELSE @,
                 !.reset_between = IF ready THEN p.reset_since_prediction ELSE @,
                 !.reset_since_prediction = IF ready THEN FALSE ELSE @,
                 !.last = [call EXCEPT !.prediction_ready = ready,
                                       !.buffer_size = Len(pose_buffer),
                                       !.time_since_last = time_since_last,
                                       !.handed = IF ready THEN Len(handed) ELSE 0]]

RtProcessFrame ==
    /\ rtp.frame_counter < Len(rtp.stream)
    /\ rtp' = process_frame(rtp, extractor, config)
    /\ UNCHANGED notRtp

\* RealTimeProcessor.reset_buffer
reset_buffer(p) ==
    [p EXCEPT !.pose_buffer = <<>>, !.quality_scores = <<>>,
              !.last_prediction_time = 0,
              !.resets = @ + 1, !.extracted = <<>>, !.buffered_since_reset = 0,
              !.reset_since_prediction = TRUE,
              !.last = [RtNoCall EXCEPT !.op = "reset_buffer", !.success = TRUE,
                                         !.pose_buffer_before = p.pose_buffer,
                                         !.quality_scores_before = p.quality_scores]]

RtResetBuffer ==
    /\ rtp.stream # <<>>
    /\ rtp.resets < MaxResets
    /\ rtp' = reset_buffer(rtp)
    /\ UNCHANGED notRtp

\* time.time() moves on between two calls
RtTick ==
    /\ rtp.stream # <<>>
    /\ rtp.ticks < MaxTicks
    /\ rtp' = [rtp EXCEPT !.now = @ + RtTickMs, !.ticks = @ + 1]
    /\ UNCHANGED notRtp

RtNext ==
    \/ RtProcessFrame
    \/ RtResetBuffer
    \/ RtTick

(***************************************************************************)
(* Specifications                                                          *)
(***************************************************************************)
InitEnc == EncIdle /\ PipeIdle /\ SessIdle /\ FqInit /\ FitIdle /\ ConfIdle /\ QualIdle /\ MgrIdle /\ RtpIdle
SpecEnc == InitEnc /\ [][EncNext]_vars

Init == EncIdle /\ PipeInit /\ SessIdle /\ FqInit /\ FitIdle /\ ConfIdle /\ QualIdle /\ MgrIdle /\ RtpIdle
Next == PipeNext
Spec == Init /\ [][Next]_vars

InitPredict == EncIdle /\ PredictSpecInit /\ SessIdle /\ FqInit /\ FitIdle /\ ConfIdle /\ QualIdle /\ MgrIdle /\ RtpIdle
SpecPredict == InitPredict /\ [][PredictNext]_vars

InitSessions == EncIdle /\ PipeIdle /\ SessInit /\ FqInit /\ FitIdle /\ ConfIdle /\ QualIdle /\ MgrIdle /\ RtpIdle
SpecSessions == InitSessions /\ [][SessNext]_vars

SpecVideo == Init /\ [][VideoNext]_vars

SpecFit == Init /\ [][FitNext]_vars

InitConfidence == EncIdle /\ PredictSpecInit /\ SessLesson /\ FqInit /\ FitIdle /\ ConfIdle /\ QualIdle /\ MgrIdle /\ RtpIdle
SpecConfidence == InitConfidence /\ [][ConfidenceNext]_vars

SpecQuality == InitEnc /\ [][QualityNext]_vars

InitQueue == EncIdle /\ PipeIdle /\ SessIdle /\ FqSessionInit /\ FitIdle /\ ConfIdle /\ QualIdle /\ MgrIdle /\ RtpIdle
SpecQueue == InitQueue /\ [][FqNext]_vars

\* the manager called by MgrCallers threads at once
InitManager ==
    /\ EncIdle /\ PipeIdle /\ SessIdle /\ FqInit /\ FitIdle /\ ConfIdle /\ QualIdle
    /\ RtpIdle
    /\ mgr = NewManager(1, MgrCallers, MgrCalls)
SpecManager == InitManager /\ [][MgrNext]_vars

\* the manager called by one caller, one call at a time
InitFrames ==
    /\ EncIdle /\ PipeIdle /\ SessIdle /\ FqInit /\ FitIdle /\ ConfIdle /\ QualIdle
    /\ RtpIdle
    /\ \E max_queue_size \in 0..MaxQueueSize :
          mgr = NewManager(max_queue_size, 1, MaxFrameCalls)
SpecFrames == InitFrames /\ [][MgrNext]_vars

\* a processor with the default configuration, before its first frame
InitRealtime ==
    /\ EncIdle /\ PipeIdle /\ SessIdle /\ FqInit /\ FitIdle /\ ConfIdle /\ QualIdle
    /\ MgrIdle
    /\ \E stream \in RtStreams : rtp = NewProcessor(stream)
SpecRealtime == InitRealtime /\ [][RtNext]_vars

(***************************************************************************)
(* Claims                                                                  *)
(***************************************************************************)
RealFrames(seq) == {i \in 1..Len(seq) : ~seq[i].pad}

\* C1: on the chained path (extractor output handed to predict) every real
\* frame of the model input has had the z-score transform applied exactly
\* once: its value is clip((raw - mean) / std), not that transformed again.
C1_NormalizedExactlyOnce ==
    (pred.op = "predict" /\ pred.model_run # "none") =>
        \A i \in RealFrames(pred.model_input) :
            /\ pred.model_input[i].norms = 1
            /\ pred.model_input[i].x =
                   Clip(ZScore(pred.model_input[i].raw, predictor.feature_means,
                               predictor.feature_stds))

\* every present group has the point count the detector is documented to give
WellFormed(r) ==
    /\ r.left_hand_landmarks.present => r.left_hand_landmarks.n = HandPoints
    /\ r.right_hand_landmarks.present => r.right_hand_landmarks.n = HandPoints
    /\ r.pose_landmarks.present => r.pose_landmarks.n = PosePoints
    /\ r.face_landmarks.present => r.face_landmarks.n > PfeFacePoints

\* C2: for the same landmark input the live-path encoder and the
\* statistics-fitting encoder write the same landmark value into every one of
\* the 288 slots.
C2_SameSlotLayout ==
    (results # <<>> /\ enh_out # <<>> /\ pfe_out # <<>> /\ WellFormed(results[1])) =>
        /\ Len(enh_out) = Len(pfe_out)
        /\ \A i \in 1..Len(enh_out) : enh_out[i] = pfe_out[i]

\* C3: with the normalization files absent or unloadable, the extractor result
\* and the predictor result both carry normalized = FALSE, and the real frames
\* that reach the classifier hold their raw values.
C3_MissingParamsUnnormalized ==
    files.norm.status # "ok" =>
        /\ result.success =>
            /\ ~result.normalized
            /\ \A i \in RealFrames(result.pose_sequence) :
                   result.pose_sequence[i].x = result.pose_sequence[i].raw
        /\ pred.success =>
            /\ ~pred.normalized
            /\ \A i \in RealFrames(pred.model_input) :
                   pred.model_input[i].x = pred.model_input[i].raw

\* C4: whenever the extractor finalizes a non-empty list of raw frames, the
\* pose_sequence has exactly sequence_length (30) frames of exactly 288 values
\* each, and the result reports those numbers.
C4_ShapeInvariant ==
    (result.op = "process_frame_sequence" /\ result.raw_frames >= 1) =>
        /\ result.success
        /\ Len(result.pose_sequence) = sequence_length
        /\ \A i \in 1..Len(result.pose_sequence) :
               result.pose_sequence[i].width = feature_dim
        /\ result.sequence_length = sequence_length
        /\ result.feature_dimension = feature_dim

\* C4 witness: more raw frames than the target, some dropped by the quality filter
C4_Witness ==
    /\ result.op = "process_frame_sequence"
    /\ result.success
    /\ config.enable_quality_filtering
    /\ result.raw_frames > sequence_length
    /\ result.filtered_frames < result.raw_frames
    /\ Len(result.pose_sequence) = sequence_length

\* C5: each encoder returns exactly 288 values for every detector result, also
\* when a detected group has an unexpected number of points.
C5_EncoderAlways288 ==
    /\ enh_out # <<>> => Len(enh_out) = feature_dim
    /\ pfe_out # <<>> => Len(pfe_out) = feature_dim

\* C6: when no frame is read, or no read frame has any detected landmark
\* group, the assembler returns the extraction-failed result: never a success,
\* never a sequence made of zero-filled frames only.
C6_NoLandmarksFails ==
    /\ (result.op # "none" /\ result.detected_frames = 0) => ~result.success
    /\ pfe_seq # <<>> => \E i \in 1..Len(pfe_seq) : pfe_seq[i].det

\* C7: predict fails, without running the model, on every sequence whose
\* shape is not exactly (30, 288).
C7_RejectsWrongShape ==
    (pred.op = "predict"
        /\ (pred.input_frames # sequence_length \/ pred.input_width # feature_dim)) =>
        /\ ~pred.success
        /\ pred.model_run = "none"

\* the indexes that have a label in the class mapping loaded from disk
LoadedMapping == IF files.mappings.status = "ok" THEN files.mappings.keys ELSE {}

\* C8: when the argmax class has no entry in the loaded label mapping, the
\* prediction operation fails and returns no label.
C8_UnknownClassFails ==
    (pred.op # "none" /\ pred.model_run # "none" /\ pred.argmax \notin LoadedMapping) =>
        /\ ~pred.success
        /\ pred.predicted_text = ErrorText

\* C9: with the trained model file missing or unloadable, predict never
\* returns success.
C9_NoModelNoSuccess ==
    (pred.op = "predict" /\ files.model # "ok") =>
        /\ ~pred.success
        /\ pred.model_run # "fallback"

\* C10: the sequence used for a user's next prediction holds that user's own
\* frames only: the latest buffer_size frames the user submitted since the
\* user's own last reset; no other user's request adds to it, evicts from it
\* or clears it.
C10_SessionIsolation ==
    \A u \in Users : SequenceFor(u) = LastN(OwnFrames(u), buffer_size)

\* C11: get_sequence returns None or exactly sequence_length frames in arrival
\* order, none of them appended before a clear_session that had completed when
\* the get_sequence call began; a partially filled buffer is never returned.
C11_GetSequenceAtomic ==
    fq_returned.kind = "array" =>
        /\ Len(fq_returned.frames) = FqSequenceLength
        /\ \A i \in 1..(Len(fq_returned.frames) - 1) :
               fq_returned.frames[i] < fq_returned.frames[i + 1]
        /\ \A i \in 1..Len(fq_returned.frames) :
               fq_returned.frames[i] \notin fq_returned.stale

\* the source positions of the real frames of a sequence, in sequence order
RealSrc(seq) ==
    LET IsReal(f) == ~f.pad
        real == SelectSeq(seq, IsReal)
    IN  [i \in 1..Len(real) |-> real[i].src]

Increasing(s) == \A i \in 1..(Len(s) - 1) : s[i] < s[i + 1]

\* C12: the real frames handed on after quality filtering keep the relative
\* order they had in the source, whatever their scores: in the extractor's
\* pose_sequence and in the sequence RealTimeProcessor hands to predict.
C12_SourceOrderKept ==
    /\ result.success => Increasing(RealSrc(result.pose_sequence))
    /\ Increasing(RealSrc(rt_filtered))

Range(s) == {s[i] : i \in 1..Len(s)}

\* C13: with quality filtering enabled, the frames passed on to normalization
\* are exactly the raw frames scoring at least the threshold when there are 5
\* or more of them, and all the raw frames otherwise.
C13_FilterOrKeepAll ==
    (result.op = "process_frame_sequence" /\ result.success
        /\ config.enable_quality_filtering) =>
        LET good == {p \in Range(result.raw) : p.score >= quality_threshold}
        IN  Range(result.passed_on) =
                IF Cardinality(good) >= MinFilteredFrames THEN good ELSE Range(result.raw)

\* a list of k real frames followed by padding frames of the normalized zero
PaddedAfterReal(seq, k, o) ==
    /\ \A i \in 1..k : ~seq[i].pad
    /\ \A i \in (k + 1)..Len(seq) :
           /\ seq[i].pad
           /\ seq[i].x = Clip(ZScore(0, o.feature_means, o.feature_stds))

\* C14: a sequence of k < 30 real frames reaches the model as the real frames
\* at positions 0..k-1, in order, followed by 30-k padding frames that each
\* equal clip(-mean/std, -5, 5).
C14_PadAfterReal ==
    (pred.op = "predict" /\ pred.model_input # <<>>
        /\ pred.input_frames < sequence_length) =>
        /\ PaddedAfterReal(pred.model_input, pred.input_frames, predictor)
        /\ \A i \in 1..pred.input_frames : pred.model_input[i].src = i

\* C15: a sequence longer than the target length reaches the model as exactly
\* its last target-length frames, in their original order.
C15_KeepsLastFrames ==
    (pred.model_input # <<>> /\ pred.input_frames > sequence_length) =>
        /\ Len(pred.model_input) = sequence_length
        /\ \A i \in 1..Len(pred.model_input) :
               pred.model_input[i].src = pred.input_frames - sequence_length + i

Interval(a, b) == [i \in 1..(b - a + 1) |-> a + i - 1]

\* C16: a source of 45 readable, good frames processed with the default limit
\* of 30 yields the sequence built from source frames 15..44 (positions 16..45
\* counted from 1), in order.
C16_LastThirtyOfSource ==
    (result.success /\ result.input_frames = 45 /\ result.max_frames = sequence_length
        /\ \A i \in 1..Len(result.raw) : result.raw[i].score >= quality_threshold
        /\ result.raw_frames = sequence_length) =>
        RealSrc(result.pose_sequence) = Interval(16, 45)

\* C17: every frame a NormalizationCalculator fit is computed over is a raw
\* encoder output: not normalized, not clipped, not a padding frame.
C17_FitOverRawFrames ==
    (fit.by = "calculate_normalization_parameters" /\ fit.ok) =>
        \A i \in 1..Len(all_features) :
            /\ all_features[i].norms = 0
            /\ ~all_features[i].pad
            /\ all_features[i].x = all_features[i].raw

\* C20: no standard deviation used as a divisor is exactly 0: neither fit
\* hands out a 0 std, even for a feature constant over the corpus, and the
\* loaders replace a stored 0 by 1e-8.
C20_NoZeroStd ==
    /\ fit.ok => ~(fit.feature_stds.num = 0 /\ fit.feature_stds.eps = 0)
    /\ extractor.feature_stds.num # 0
    /\ predictor.feature_stds.num # 0

\* a calculator fit over a constant feature, by an extractor that loaded a
\* stored std of 0
C20_Witness ==
    /\ fit.ok
    /\ fit.by = "calculate_normalization_parameters"
    /\ fit.feature_stds = [num |-> 0, den |-> 1, eps |-> 1]
    /\ files.norm.status = "ok"
    /\ files.norm.std = 0
    /\ extractor.feature_stds = Eps

\* C18: a sampled frame that cannot be decoded or shows no landmarks still
\* contributes a frame at its own position and never fails the sequence: the
\* frames entering length normalization are the frames sampled, one for one.
C18_BadFrameKeepsItsPlace ==
    (result.op # "none" /\ ~result.raised /\ result.sampled # <<>>) =>
        /\ result.success
        /\ result.raw_frames = Len(result.sampled)
        /\ \A i \in 1..Len(result.raw) : result.raw[i].src = result.sampled[i]

\* C19: the reported class is argmax(p) and the reported confidence is
\* p[argmax], never raised above it (1/N for a uniform p); on the percentage
\* scale of analyze_with_trained_model, 100 * p[argmax] to two decimals.
C19_ConfidenceIsArgmaxProbability ==
    report.success =>
        LET best == ArgMax(report.vector)
        IN  /\ report.class_idx = best
            /\ report.fn = "predict" =>
                   report.confidence = [num |-> report.vector[best + 1], den |-> ProbSteps]
            /\ report.fn = "analyze_with_trained_model" =>
                   report.confidence_score = Round2(report.vector[best + 1] * 100, ProbSteps)

\* C21: each normalizer maps a value x to clip((x - mean) / std, -5, 5): every
\* value of a normalized sequence lies in [-5, 5], and a z-score of +10 or
\* more becomes exactly +5, one of -10 or less exactly -5.
C21_NormalizedIsClippedZScore ==
    /\ (result.success /\ result.normalized) =>
           \A i \in 1..Len(result.pose_sequence) :
               LET f == result.pose_sequence[i]
               IN  /\ f.x >= -ClipBound /\ f.x <= ClipBound
                   /\ ~f.pad => f.x = Clip(ZScore(f.raw, extractor.feature_means,
                                                  extractor.feature_stds))
    /\ (pred.op = "predict" /\ pred.model_input # <<>>) =>
           \A i \in 1..Len(pred.model_input) :
               /\ pred.model_input[i].x >= -ClipBound
               /\ pred.model_input[i].x <= ClipBound
               /\ pred.model_input[i].x =
                      Clip(ZScore(result.pose_sequence[i].x, predictor.feature_means,
                                  predictor.feature_stds))

\* a normalized sequence holding a frame of z-score above +10 and one below
\* -10, passed on to the predictor
C21_Witness ==
    /\ result.success /\ result.normalized
    /\ pred.op = "predict" /\ pred.model_input # <<>>
    /\ \E i \in 1..Len(result.pose_sequence) :
           LET f == result.pose_sequence[i]
           IN  /\ ~f.pad
               /\ ZScore(f.raw, extractor.feature_means, extractor.feature_stds) >= 10
               /\ f.x = ClipBound
    /\ \E i \in 1..Len(result.pose_sequence) :
           LET f == result.pose_sequence[i]
           IN  /\ ~f.pad
               /\ ZScore(f.raw, extractor.feature_means, extractor.feature_stds) <= -10
               /\ f.x = -ClipBound

\* a detector result with every group of fewer points than expected taken away
ShortAsAbsent(r, face_points) ==
    LET Cut(g, expected) == IF g.present /\ g.n < expected THEN Absent ELSE g
    IN  [left_hand_landmarks |-> Cut(r.left_hand_landmarks, HandPoints),
         right_hand_landmarks |-> Cut(r.right_hand_landmarks, HandPoints),
         pose_landmarks |-> Cut(r.pose_landmarks, PosePoints),
         face_landmarks |-> Cut(r.face_landmarks, face_points)]

\* C22: in each of the four blocks a detected group with fewer points than the
\* block expects is encoded exactly like an absent group: all zeros at the
\* block's full length, no partial block.
C22_ShortGroupIsAbsent ==
    /\ enh_out # <<>> =>
           enh_out = extract_keypoints_enhanced(ShortAsAbsent(results[1], FacePointsUsed))
    /\ pfe_out # <<>> =>
           pfe_out = extract_features_from_landmarks(ShortAsAbsent(results[1], PfeFacePoints))

\* C23: _calculate_quality_score returns a value in [0.0, 1.0] for every finite
\* input, also for group qualities outside [0, 1] and for a feature vector
\* that is not 288 long.
C23_QualityInUnitRange ==
    quality.called => (quality.score >= 0 /\ quality.score <= QOne)

\* group qualities above 1 whose weighted sum passes 1.0, handed back as 1.0
C23_Witness ==
    /\ quality.called
    /\ quality.features = feature_dim
    /\ quality.pose_q > 1000
    /\ quality.combined > QOne
    /\ quality.score = QOne

\* no call of the manager is in progress
MgrQuiet == \A th \in DOMAIN mgr.thread : mgr.thread[th].op = "idle"

\* C24: under any interleaving of concurrent create_session, add_frame,
\* add_to_sequence and remove_session calls, stats['active_sessions'] equals the
\* number of sessions in session_queues and a session in session_queues has its
\* sequence buffer and its lock (both once the calls have returned), and no call
\* fails on a missing per-session entry
C24_ManagerConsistent ==
    /\ mgr.failed = {}
    /\ MgrQuiet =>
          /\ mgr.stats.active_sessions = (IF mgr.has_queue THEN 1 ELSE 0)
          /\ mgr.has_queue => (mgr.has_sequence /\ mgr.lock # 0)

\* what C29 states of the call that returned last and of the queue, for a queue
\* that counts as full at `size` frames
QueueContract(size) ==
    LET r == mgr.returned
        was_full == Len(r.queue_before) >= size
    IN  /\ Len(mgr.queue) <= size
        /\ (r.op = "add_frame" /\ was_full) =>
              /\ r.value = "False"
              /\ r.queue_after = r.queue_before
              /\ r.dropped_after = r.dropped_before + 1
        /\ (r.op = "add_frame" /\ ~was_full) => r.value = "True"
        /\ (r.op = "get_frame" /\ r.value = "frame") =>
              /\ r.queue_before # <<>>
              /\ r.frame = Head(r.queue_before)
              /\ r.queue_after = Tail(r.queue_before)
        /\ \A i, j \in 1..Len(mgr.got) : i < j => mgr.got[i] < mgr.got[j]

C25_BufferHoldsLatestFrames ==
    /\ Len(rtp.pose_buffer) = Len(rtp.quality_scores)
    /\ Len(rtp.pose_buffer) <= buffer_size
    /\ [i \in 1..Len(rtp.pose_buffer) |-> rtp.pose_buffer[i].src]
           = LastN(rtp.extracted, buffer_size)
    /\ \A i \in 1..Len(rtp.pose_buffer) :
          LET item == rtp.stream[rtp.pose_buffer[i].src]
          IN  /\ rtp.pose_buffer[i]
                     = extract_pose_from_frame(extractor, config, item).features
              /\ rtp.quality_scores[i] = item.kind.q
    /\ (rtp.last.op = "process_frame" /\ ~rtp.last.success) =>
          /\ rtp.pose_buffer = rtp.last.pose_buffer_before
          /\ rtp.quality_scores = rtp.last.quality_scores_before

\* C25 witness: more frames extracted than the buffer holds, so the oldest were
\* evicted, and the last frame failed extraction with a full buffer
C25_Witness ==
    /\ Len(rtp.extracted) > buffer_size
    /\ Len(rtp.pose_buffer) = buffer_size
    /\ rtp.pose_buffer[1].src > 1
    /\ rtp.last.op = "process_frame"
    /\ ~rtp.last.success

\* the time between the last two predictions
RtGap == rtp.predicted_at[Len(rtp.predicted_at)] - rtp.predicted_at[Len(rtp.predicted_at) - 1]

\* a prediction needs min_frames_for_prediction frames in the buffer, all of
\* them buffered since the last reset_buffer
RtEnoughFrames ==
    rtp.last.prediction_ready =>
        /\ rtp.last.buffer_size >= min_frames_for_prediction
        /\ rtp.buffered_since_reset >= min_frames_for_prediction

\* C26 (amended): process_frame makes a prediction only when the buffer holds at
\* least min_frames_for_prediction frames and the clock is at least
\* prediction_interval ms past last_prediction_time; two consecutive predictions
\* with no reset_buffer between them are at least prediction_interval apart;
\* after reset_buffer no prediction is made until min_frames_for_prediction
\* frames have been buffered again
C26_PredictionsSpacedUnlessReset ==
    /\ RtEnoughFrames
    /\ rtp.last.prediction_ready => rtp.last.time_since_last >= prediction_interval
    /\ (Len(rtp.predicted_at) >= 2 /\ ~rtp.reset_between) => RtGap >= prediction_interval

\* C26 witness: a prediction, a reset_buffer, min_frames_for_prediction new
\* frames and a prediction, and then the next one with no reset in between
C26_Witness ==
    /\ rtp.resets >= 1
    /\ rtp.frames_processed - Len(rtp.extracted) >= min_frames_for_prediction
    /\ rtp.last.prediction_ready
    /\ Len(rtp.predicted_at) >= 3
    /\ ~rtp.reset_between
    /\ RtGap >= prediction_interval

\* C26 as stated: any two consecutive predictions are at least
\* prediction_interval apart
C26_PredictionsSpaced ==
    /\ RtEnoughFrames
    /\ Len(rtp.predicted_at) >= 2 => RtGap >= prediction_interval

\* C27: for every total_frames > max_frames >= 1, _calculate_smart_sampling
\* returns without raising, and its result is a strictly increasing list of
\* frame indices, each in 0..total_frames-1, with at most max_frames entries
\* (result.sampled holds the indices plus one, the positions in the video)
C27_SmartSamplingSafe ==
    (result.op = "process_video_file" /\ result.input_frames > result.max_frames) =>
        /\ ~result.raised
        /\ Increasing(result.sampled)
        /\ \A i \in 1..Len(result.sampled) :
              result.sampled[i] - 1 \in 0..(result.input_frames - 1)
        /\ Len(result.sampled) <= result.max_frames

\* C28: for every video with total_frames > max_frames (max_frames = 30) whose
\* frames are all readable, process_video_file samples exactly max_frames
\* frames: at least 30 frames enter quality filtering, and when the filter
\* drops none of them the result holds no padding frame
C28_LongVideoFullySampled ==
    (/\ result.op = "process_video_file"
     /\ result.max_frames = sequence_length
     /\ result.input_frames > result.max_frames
     /\ result.raw_frames = Len(result.sampled)) =>
        /\ Len(result.sampled) = result.max_frames
        /\ result.raw_frames >= sequence_length
        /\ result.filtered_frames = result.raw_frames =>
              \A i \in 1..Len(result.pose_sequence) : ~result.pose_sequence[i].pad

\* C30: analyze_with_trained_model returns model_status 'building_sequence'
\* (no predicted sign) only while the buffer, the current frame included, holds
\* fewer than 30 frames; once 30 frames are buffered every call returns 'active'
\* with a predicted_sign; and the buffer never holds more than 30 frames
C30_BuildingOnlyWhileShort ==
    /\ Len(current_sequence) <= sequence_length
    /\ report.fn = "analyze_with_trained_model" =>
          /\ ~report.success => Len(current_sequence) < sequence_length
          /\ Len(current_sequence) >= sequence_length =>
                (report.success /\ report.class_idx # -1)
====
